---- MODULE Spec2Model ----
(***************************************************************************)
(* State-machine model of the backend-sbv news pipeline workers            *)
(* (backend/app/workers/tasks.py and backend/app/services/trending.py).    *)
(*                                                                         *)
(* The database is modelled as sets of committed rows.  Every worker job   *)
(* owns one session: rows it has flushed are held in its job record until  *)
(* its commit step moves them into the committed tables, or an early       *)
(* return / exception drops them (rollback on session close).  A job       *)
(* advances one database statement or external call at a time, so that     *)
(* jobs of parallel workers interleave as they do under READ COMMITTED.    *)
(*                                                                         *)
(* Time is counted in units of ten minutes.  A 64-bit SimHash is the set   *)
(* of its one-bits (bit 0 .. bit 63).                                      *)
(***************************************************************************)
EXTENDS Integers, Sequences, FiniteSets, TLC

VARIABLES
    now,            \* wall clock, in units of ten minutes
    articles,       \* committed rows of table articles
    nextArticleId,  \* sequence articles_id_seq
    pjob,           \* process_article_url jobs
    delayed,        \* follow-up jobs submitted with .delay(), in order
    spaces,         \* committed rows of embedding_spaces
    nextSpaceId,    \* sequence embedding_spaces_id_seq
    embeddings,     \* committed rows of article_embeddings
    runs,           \* committed rows of cluster_runs
    clusters,       \* committed rows of clusters
    nextClusterId,  \* sequence clusters_id_seq
    assignments,    \* committed rows of article_clusters
    summaries,      \* committed rows of cluster_summaries
    ejob,           \* embed_and_cluster_article jobs
    written,        \* per committed assignment: the job's own account of it
    metrics,        \* committed rows of trend_metrics
    events,         \* committed rows of events
    nextEventId,    \* sequence events_id_seq
    published,      \* the messages published on the Redis channel "events"
    djob,           \* detect_events jobs
    nextSummaryId,  \* sequence cluster_summaries_id_seq
    sjob,           \* summarize_cluster jobs
    channelLog,     \* every payload published on channel "events", in order
    subscribed,     \* the connections the Redis server has subscribed
    inbox,          \* per connection, what the server sent and is not yet read
    stream,         \* event_stream_generator sessions
    tjob,           \* calculate_trends jobs
    queue,          \* per task name, the messages waiting in the broker
    handled         \* what became of the message handled last

ingestVars == <<articles, nextArticleId, pjob, delayed>>

clusterOnly ==
    <<spaces, nextSpaceId, embeddings, runs, clusters, nextClusterId,
      assignments, summaries, ejob, written>>

detectOnly == <<metrics, events, nextEventId, published, djob>>

summaryOnly == <<nextSummaryId, sjob>>

\* What the ingest, embed-and-cluster and detector jobs never touch.
streamOnly == <<channelLog, subscribed, inbox, stream>>

trendOnly == <<tjob>>

\* The broker's queue and the worker's consumer, which no job touches.
beatOnly == <<queue, handled>>

restVars == <<summaryOnly, streamOnly, trendOnly, beatOnly>>

vars ==
    <<now, articles, nextArticleId, pjob, delayed, spaces, nextSpaceId,
      embeddings, runs, clusters, nextClusterId, assignments, summaries,
      ejob, written, metrics, events, nextEventId, published, djob,
      nextSummaryId, sjob, channelLog, subscribed, inbox, stream, tjob,
      queue, handled>>

None == "None"

\* A NULL simhash_64 (no bit set can be -1).
NullHash == {-1}

(***************************************************************************)
(* Bounds of the model.                                                    *)
(***************************************************************************)
NIngestJobs == 2

\* The task executions of one behaviour, over all tasks.
MaxJobs == 2

Started(jobs) == Cardinality({j \in DOMAIN jobs : jobs[j].pc # "idle"})

JobsStarted ==
    Started(pjob) + Started(ejob) + Started(sjob) + Started(tjob) + Started(djob)

IngestJobs == 1..NIngestJobs

Urls == {"u1", "u2"}

Sources == {1, 2}

\* SimHash values the fingerprint step is given to return: pairwise
\* distances 1, 3 and 4 (around the limit of 3), and one value with the top
\* bit set.
SimhashInputs == { {}, {0, 1, 2}, {0, 1, 2, 3}, {0, 63} }

(***************************************************************************)
(* Content fingerprint and duplicate test.                                 *)
(***************************************************************************)
SIMHASH_MAX_DISTANCE == 3

hamming_distance_union(left, right) == Cardinality(left \cup right)

\* (left ^ right).bit_count()
hamming_distance(left, right) ==
    Cardinality((left \ right) \cup (right \ left))

\* A Python int binds to BIGINT only within the signed 64-bit range.
FitsBigInteger(h) == 63 \notin h

ExistingByUrlNever(url) == {}

\* select(Article).where(Article.url == url)
ExistingByUrl(url) == {a \in articles : a.url = url}

\* SimhashDuplicates with < in place of <=.
SimhashDuplicatesBelowLimit(source_id, simhash_value) ==
    {a \in articles :
        /\ a.source_id = source_id
        /\ a.simhash_64 # NullHash
        /\ hamming_distance(a.simhash_64, simhash_value) < SIMHASH_MAX_DISTANCE}

\* rows of the source whose simhash is within the limit of simhash_value
SimhashDuplicates(source_id, simhash_value) ==
    {a \in articles :
        /\ a.source_id = source_id
        /\ a.simhash_64 # NullHash
        /\ hamming_distance(a.simhash_64, simhash_value) <= SIMHASH_MAX_DISTANCE}

(***************************************************************************)
(* process_article_url                                                     *)
(***************************************************************************)
FetchFailures ==
    { <<"error", "timeout">>, <<"error", "http">>, <<"error", "extract">>,
      <<"skipped", "empty">>, <<"error", "extract-json">>,
      <<"skipped", "empty-text">> }

IdlePJob ==
    [pc |-> "idle", url |-> None, source_id |-> 0, simhash_value |-> None,
     status |-> None, reason |-> None, article_id |-> 0, log |-> None,
     after |-> {}]

\* The job returns {"status": status, "reason": reason, "article_id": id};
\* log is the message it logged last.
PDone(j, status, reason, id, log) ==
    pjob' = [pjob EXCEPT ![j].pc = "done", ![j].status = status,
                         ![j].reason = reason, ![j].article_id = id,
                         ![j].log = log]

\* A worker takes the job (url, source_id) from the queue.  `after` records
\* the jobs that had already returned (used to tell sequential runs apart).
ProcessStart(j) ==
    /\ pjob[j].pc = "idle"
    /\ JobsStarted < MaxJobs
    /\ \A i \in IngestJobs : i < j => pjob[i].pc # "idle"
    /\ \E u \in Urls, s \in Sources :
          pjob' = [pjob EXCEPT ![j].pc = "fetch", ![j].url = u,
                               ![j].source_id = s,
                               ![j].after = {i \in IngestJobs : pjob[i].pc = "done"}]
    /\ UNCHANGED <<now, articles, nextArticleId, delayed, clusterOnly, detectOnly, restVars>>

\* ProcessFetchFail, had the failing job submitted the embedding job first.
ProcessFetchFailEnqueuing(j) ==
    /\ pjob[j].pc = "fetch"
    /\ \E f \in FetchFailures : PDone(j, f[1], f[2], 0, "fetch")
    /\ delayed' = Append(delayed, [task |-> "embed_and_cluster_article",
                                    article_id |-> 0])
    /\ UNCHANGED <<now, articles, nextArticleId, clusterOnly, detectOnly, restVars>>

\* HTTP GET, trafilatura extraction, JSON decoding, text check: each failure
\* returns before the database is touched.
ProcessFetchFail(j) ==
    /\ pjob[j].pc = "fetch"
    /\ \E f \in FetchFailures : PDone(j, f[1], f[2], 0, "fetch")
    /\ UNCHANGED <<now, articles, nextArticleId, delayed, clusterOnly, detectOnly, restVars>>

\* The page is fetched and extracted; the fingerprints are computed.
ProcessFetchOk(j) ==
    /\ pjob[j].pc = "fetch"
    /\ \E h \in SimhashInputs :
          pjob' = [pjob EXCEPT ![j].pc = "check_url", ![j].simhash_value = h]
    /\ UNCHANGED <<now, articles, nextArticleId, delayed, clusterOnly, detectOnly, restVars>>

\* existing = session.scalar(select(Article).where(Article.url == url))
ProcessCheckUrl(j) ==
    /\ pjob[j].pc = "check_url"
    /\ IF ExistingByUrl(pjob[j].url) # {}
         THEN \E a \in ExistingByUrl(pjob[j].url) : PDone(j, "duplicate", None, a.id, "same URL")
         ELSE pjob' = [pjob EXCEPT ![j].pc = "scan"]
    /\ UNCHANGED <<now, articles, nextArticleId, delayed, clusterOnly, detectOnly, restVars>>

\* The scan of the source's simhashes; the rows come in no stated order, so
\* the first row within the limit is any row within the limit.
ProcessScan(j) ==
    /\ pjob[j].pc = "scan"
    /\ LET dups == SimhashDuplicates(pjob[j].source_id, pjob[j].simhash_value)
       IN  IF dups # {}
             THEN \E a \in dups : PDone(j, "duplicate", None, a.id, "via simhash")
             ELSE pjob' = [pjob EXCEPT ![j].pc = "insert"]
    /\ UNCHANGED <<now, articles, nextArticleId, delayed, clusterOnly, detectOnly, restVars>>

\* session.add(article); flush(); commit().  The flush raises when the value
\* does not fit the BIGINT column or when the unique constraint on url is
\* violated (the sequence value is consumed by the failing INSERT); nothing
\* catches it, so the task fails.
ProcessInsert(j) ==
    /\ pjob[j].pc = "insert"
    /\ IF ~FitsBigInteger(pjob[j].simhash_value)
         THEN /\ PDone(j, "raised", "DataError", 0, None)
              /\ UNCHANGED <<articles, nextArticleId>>
         ELSE IF \E a \in articles : a.url = pjob[j].url
         THEN /\ PDone(j, "raised", "IntegrityError", 0, None)
              /\ nextArticleId' = nextArticleId + 1
              /\ UNCHANGED articles
         ELSE /\ articles' = articles \cup
                    {[id |-> nextArticleId, source_id |-> pjob[j].source_id,
                      url |-> pjob[j].url, simhash_64 |-> pjob[j].simhash_value,
                      text_content |-> "text", created_at |-> now]}
              /\ nextArticleId' = nextArticleId + 1
              /\ pjob' = [pjob EXCEPT ![j].pc = "fanout",
                                      ![j].article_id = nextArticleId]
    /\ UNCHANGED <<now, delayed, clusterOnly, detectOnly, restVars>>

FollowUpsEmbedTwice(created_id) ==
    << [task |-> "embed_and_cluster_article", article_id |-> created_id],
       [task |-> "embed_and_cluster_article", article_id |-> created_id] >>

\* embed_and_cluster_article.delay(...); index_article_in_search.delay(...)
FollowUps(created_id) ==
    << [task |-> "embed_and_cluster_article", article_id |-> created_id],
       [task |-> "index_article_in_search", article_id |-> created_id] >>

\* The two follow-up jobs are submitted after the session has committed and
\* closed; then the job returns "stored".
ProcessFanout(j) ==
    /\ pjob[j].pc = "fanout"
    /\ delayed' = delayed \o FollowUps(pjob[j].article_id)
    /\ PDone(j, "stored", None, pjob[j].article_id, "stored")
    /\ UNCHANGED <<now, articles, nextArticleId, clusterOnly, detectOnly, restVars>>

(***************************************************************************)
(* Embedding store and cluster state.                                      *)
(***************************************************************************)
NEmbedJobs == 2

EmbedJobs == 1..NEmbedJobs

\* The clock may advance this many times while the jobs of the model run.
MaxClusterTicks == 1

DEFAULT_EMBEDDING_SPACE == "mistral-embed"

DEFAULT_EMBEDDING_DIMS == 1024

\* The dimension of column article_embeddings.embedding, Vector(dim=1024).
EMBEDDING_COLUMN_DIMS == 1024

\* active_run.params.get("threshold", 0.8), in hundredths
DEFAULT_THRESHOLD == 80

\* timedelta(hours=48), in units of ten minutes
KNN_WINDOW == 288

\* LIMIT 5
KNN_LIMIT == 5

\* if article_count >= 3
SUMMARY_MIN_ARTICLES == 3

\* client.embeddings.create(input=embedding_input): the vector of an
\* article's text.  The articles of the model have the vectors 1, 2 and 3
\* (CosSim gives their similarities); the dimensions the embedder may return
\* them in are EmbedderDims.
EmbeddingOf(article_id) == article_id

EmbedderDims == {1024, 512}

\* 1 - (ae.embedding <=> target), in hundredths
CosSim(v, w) ==
    IF v = w THEN 100
    ELSE IF {v, w} = {1, 2} THEN 90
    ELSE IF {v, w} = {1, 3} THEN 78
    ELSE 85

\* active_run.params.get("threshold", 0.8); params is a set of <<key, value>>
ThresholdOf(params) ==
    IF \E kv \in params : kv[1] = "threshold"
      THEN (CHOOSE kv \in params : kv[1] = "threshold")[2]
      ELSE DEFAULT_THRESHOLD

\* select(EmbeddingSpace).where(EmbeddingSpace.name == DEFAULT_EMBEDDING_SPACE)
SpacesByName == {sp \in spaces : sp.name = DEFAULT_EMBEDDING_SPACE}

ActiveRunsIgnoringFlag(space_id) == {r \in runs : r.space_id = space_id}

\* select(ClusterRun).where(space_id == space_id, is_active == True)
ActiveRuns(space_id) ==
    {r \in runs : r.space_id = space_id /\ r.is_active}

ArticleById(id) == CHOOSE a \in articles : a.id = id

KnnCandidatesUnwindowed(space_id, target, window_start, article_id) ==
    {[article_id |-> e.article_id,
      similarity |-> CosSim(e.embedding, target),
      created_at |-> ArticleById(e.article_id).created_at] :
        e \in {x \in embeddings : x.space_id = space_id /\ x.article_id # article_id}}

\* The rows the kNN query ranks: embeddings of the space, of other articles
\* created at or after window_start.
KnnCandidates(space_id, target, window_start, article_id) ==
    {[article_id |-> e.article_id,
      similarity |-> CosSim(e.embedding, target),
      created_at |-> ArticleById(e.article_id).created_at] :
        e \in {x \in embeddings :
                  /\ x.space_id = space_id
                  /\ x.article_id # article_id
                  /\ ArticleById(x.article_id).created_at >= window_start}}

Min(x, y) == IF x <= y THEN x ELSE y

Max(x, y) == IF x >= y THEN x ELSE y

\* ORDER BY distance LIMIT 5: every sequence of the nearest rows in ascending
\* distance (descending similarity); rows at equal distance come in any order.
KnnResults(cands) ==
    LET k == Min(KNN_LIMIT, Cardinality(cands))
    IN  {s \in [1..k -> cands] :
            /\ \A i, j \in 1..k : i < j =>
                  (s[i] # s[j] /\ s[i].similarity >= s[j].similarity)
            /\ \A c \in cands :
                  (\A i \in 1..k : s[i] # c) =>
                      \A i \in 1..k : s[i].similarity >= c.similarity}

\* select(ArticleCluster.cluster_id).where(run_id == run_id, article_id == neighbor_id)
ClustersOfArticle(run_id, article_id) ==
    {x.cluster_id : x \in {y \in assignments :
                              y.run_id = run_id /\ y.article_id = article_id}}

\* select(func.count(ArticleCluster.article_id)).where(cluster_id == cluster_id)
ArticleCount(cluster_id) ==
    Cardinality({x \in assignments : x.cluster_id = cluster_id})

\* The check for an active summary finding none.
HasActiveSummaryNever(cluster_id) == FALSE

\* select(ClusterSummary).where(cluster_id == cluster_id, is_active).limit(1)
HasActiveSummary(cluster_id) ==
    \E sm \in summaries : sm.cluster_id = cluster_id /\ sm.is_active

(***************************************************************************)
(* embed_and_cluster_article                                               *)
(***************************************************************************)
IdleEJob ==
    [pc |-> "idle", article_id |-> 0, space_id |-> 0, space_dims |-> 0,
     new_space |-> {}, embedding_data |-> 0, new_embedding |-> {},
     run_id |-> 0, threshold |-> 0, window_start |-> 0, neighbors |-> << >>,
     idx |-> 0, neighbor_id |-> 0, assigned_cluster_id |-> 0,
     max_similarity |-> 0, new_cluster |-> {},
     status |-> None, reason |-> None, cluster_id |-> 0, replay |-> FALSE,
     received_dims |-> 0]

\* The job returns {"status": status, "reason": reason, "cluster_id": id}: its
\* locals are gone, and leaving the session block without a commit rolls
\* back what the session had flushed.
EReturned(j, status, reason, id) ==
    [IdleEJob EXCEPT !.pc = "done", !.status = status, !.reason = reason,
                     !.cluster_id = id, !.article_id = ejob[j].article_id,
                     !.space_id = ejob[j].space_id, !.replay = ejob[j].replay]

EReturn(j, status, reason) ==
    ejob' = [ejob EXCEPT ![j] = EReturned(j, status, reason, 0)]

\* The article has an assignment under a run that is active (recorded when
\* the job starts, to tell a re-run from a first run).
AssignedInActiveRun(article_id) ==
    \E x \in assignments :
        /\ x.article_id = article_id
        /\ \E r \in runs : r.id = x.run_id /\ r.is_active

\* article = session.get(Article, article_id), and the text check
EmbedStart(j) ==
    /\ ejob[j].pc = "idle"
    /\ JobsStarted < MaxJobs
    /\ \A i \in EmbedJobs : i < j => ejob[i].pc # "idle"
    /\ \E id \in {a.id : a \in articles} \cup {0} :
          LET started == [IdleEJob EXCEPT !.article_id = id,
                                          !.replay = AssignedInActiveRun(id)]
          IN  IF id = 0
                THEN ejob' = [ejob EXCEPT ![j] =
                          [started EXCEPT !.pc = "done", !.status = "missing"]]
              ELSE IF ArticleById(id).text_content = None
                THEN ejob' = [ejob EXCEPT ![j] =
                          [started EXCEPT !.pc = "done", !.status = "skipped",
                                          !.reason = "no-text"]]
              ELSE ejob' = [ejob EXCEPT ![j] = [started EXCEPT !.pc = "get_space"]]
    /\ UNCHANGED <<now, detectOnly, restVars, ingestVars, spaces, nextSpaceId, embeddings, runs,
                   clusters, nextClusterId, assignments, summaries, written>>

\* _get_or_create_embedding_space: the select
EmbedGetSpace(j) ==
    /\ ejob[j].pc = "get_space"
    /\ IF SpacesByName # {}
         THEN \E sp \in SpacesByName :
                ejob' = [ejob EXCEPT ![j].pc = "get_embedding",
                                     ![j].space_id = sp.id,
                                     ![j].space_dims = sp.dims]
         ELSE ejob' = [ejob EXCEPT ![j].pc = "create_space"]
    /\ UNCHANGED <<now, detectOnly, restVars, ingestVars, spaces, nextSpaceId, embeddings, runs,
                   clusters, nextClusterId, assignments, summaries, written>>

\* _get_or_create_embedding_space: session.add(space); flush().  The INSERT
\* waits while another session holds an uncommitted row with the same
\* (name, version) and raises once such a row is committed.
EmbedCreateSpace(j) ==
    /\ ejob[j].pc = "create_space"
    /\ \A i \in EmbedJobs : ejob[i].new_space = {}
    /\ IF SpacesByName # {}
         THEN /\ EReturn(j, "raised", "IntegrityError")
         ELSE /\ ejob' = [ejob EXCEPT
                    ![j].pc = "get_embedding",
                    ![j].space_id = nextSpaceId,
                    ![j].space_dims = DEFAULT_EMBEDDING_DIMS,
                    ![j].new_space = {[id |-> nextSpaceId,
                                       name |-> DEFAULT_EMBEDDING_SPACE,
                                       dims |-> DEFAULT_EMBEDDING_DIMS]}]
    /\ nextSpaceId' = nextSpaceId + 1
    /\ UNCHANGED <<now, detectOnly, restVars, ingestVars, spaces, embeddings, runs,
                   clusters, nextClusterId, assignments, summaries, written>>

\* existing = session.get(ArticleEmbedding, (space_id, article_id)), and the
\* check of the embedding input (title and text both blank)
EmbedGetEmbedding(j) ==
    /\ ejob[j].pc = "get_embedding"
    /\ LET existing == {e \in embeddings : e.space_id = ejob[j].space_id
                                           /\ e.article_id = ejob[j].article_id}
       IN  IF existing # {}
             THEN \E e \in existing :
                    ejob' = [ejob EXCEPT ![j].pc = "get_run",
                                         ![j].embedding_data = e.embedding]
           ELSE IF ArticleById(ejob[j].article_id).text_content = "blank"
             THEN EReturn(j, "skipped", "empty-input")
           ELSE ejob' = [ejob EXCEPT ![j].pc = "embed"]
    /\ UNCHANGED <<now, detectOnly, restVars, ingestVars, spaces, nextSpaceId, embeddings, runs,
                   clusters, nextClusterId, assignments, summaries, written>>

\* EmbedCallFail, had the job committed the space it created before it returned.
EmbedCallFailCommitting(j) ==
    /\ ejob[j].pc = "embed"
    /\ EReturn(j, "error", "embedding")
    /\ spaces' = spaces \cup ejob[j].new_space
    /\ UNCHANGED <<now, detectOnly, restVars, ingestVars, nextSpaceId, embeddings, runs,
                   clusters, nextClusterId, assignments, summaries, written>>

\* client.embeddings.create raises
EmbedCallFail(j) ==
    /\ ejob[j].pc = "embed"
    /\ EReturn(j, "error", "embedding")
    /\ UNCHANGED <<now, detectOnly, restVars, ingestVars, spaces, nextSpaceId, embeddings, runs,
                   clusters, nextClusterId, assignments, summaries, written>>

\* The embedder returns the vector v of the article's text in dimension d
\* (kept in received_dims for the properties);
\* the registry's dims is set to d when it differs;
\* session.add(article_embedding); flush().  The INSERT raises when d is not the column's dimension or the primary key is
\* already committed, and waits while another session holds the key.
EmbedCallOk(j) ==
    /\ ejob[j].pc = "embed"
    /\ \A i \in EmbedJobs : \A e \in ejob[i].new_embedding :
          ~(e.space_id = ejob[j].space_id /\ e.article_id = ejob[j].article_id)
    /\ \E v \in {EmbeddingOf(ejob[j].article_id)}, d \in EmbedderDims :
          IF d # EMBEDDING_COLUMN_DIMS
            THEN ejob' = [ejob EXCEPT ![j] =
                     [EReturned(j, "raised", "DataError", 0) EXCEPT
                         !.received_dims = d]]
          ELSE IF \E e \in embeddings : e.space_id = ejob[j].space_id
                                        /\ e.article_id = ejob[j].article_id
            THEN ejob' = [ejob EXCEPT ![j] =
                     [EReturned(j, "raised", "IntegrityError", 0) EXCEPT
                         !.received_dims = d]]
          ELSE ejob' = [ejob EXCEPT
                  ![j].pc = "get_run",
                  ![j].embedding_data = v,
                  ![j].received_dims = d,
                  ![j].space_dims = d,
                  ![j].new_space = {[sp EXCEPT !.dims = d] : sp \in ejob[j].new_space},
                  ![j].new_embedding = {[space_id |-> ejob[j].space_id,
                                         article_id |-> ejob[j].article_id,
                                         embedding |-> v]}]
    /\ UNCHANGED <<now, detectOnly, restVars, ingestVars, spaces, nextSpaceId, embeddings, runs,
                   clusters, nextClusterId, assignments, summaries, written>>

\* CommitFlushed, had the embedding been left out of the transaction.
CommitFlushedWithoutEmbedding(j) ==
    /\ spaces' = spaces \cup ejob[j].new_space
    /\ embeddings' = embeddings
    /\ clusters' = clusters \cup ejob[j].new_cluster

\* What session.commit() writes besides the assignment: the rows the session
\* flushed, and the registry's dims when the job changed it.
CommitFlushed(j) ==
    /\ spaces' = {IF sp.id = ejob[j].space_id /\ ejob[j].new_embedding # {}
                    THEN [sp EXCEPT !.dims = ejob[j].space_dims] ELSE sp :
                  sp \in spaces} \cup ejob[j].new_space
    /\ embeddings' = embeddings \cup ejob[j].new_embedding
    /\ clusters' = clusters \cup ejob[j].new_cluster

\* The table cluster_runs after a job found no active run in the space: the
\* job logs a warning and creates none.
RunsWhenNoneActiveCreated(space_id) ==
    runs \cup {[id |-> Cardinality(runs) + 1, space_id |-> space_id,
                is_active |-> TRUE, params |-> {}]}

RunsWhenNoneActive(space_id) == runs

\* The select of the active run; with none, commit and return.
EmbedGetRun(j) ==
    /\ ejob[j].pc = "get_run"
    /\ IF ActiveRuns(ejob[j].space_id) = {}
         THEN /\ CommitFlushed(j)
              /\ runs' = RunsWhenNoneActive(ejob[j].space_id)
              /\ ejob' = [ejob EXCEPT ![j] = EReturned(j, "embedded", None, 0)]
         ELSE /\ \E r \in ActiveRuns(ejob[j].space_id) :
                    ejob' = [ejob EXCEPT ![j].pc = "knn", ![j].run_id = r.id,
                                         ![j].threshold = ThresholdOf(r.params)]
              /\ UNCHANGED <<spaces, embeddings, runs, clusters>>
    /\ UNCHANGED <<now, detectOnly, restVars, ingestVars, nextSpaceId, nextClusterId,
                   assignments, summaries, written>>

\* datetime.now(timezone.utc) in a job: a reading not before the last one.
\* Nothing but these readings observes the clock, so time passes in them.
ClusterClock == now .. (KNN_WINDOW + MaxClusterTicks)

\* window_start = now - 48 h; the kNN query
EmbedKnn(j) ==
    /\ ejob[j].pc = "knn"
    /\ \E reading \in ClusterClock :
          /\ now' = reading
          /\ \E s \in KnnResults(KnnCandidates(ejob[j].space_id,
                                               ejob[j].embedding_data,
                                               reading - KNN_WINDOW,
                                               ejob[j].article_id)) :
                ejob' = [ejob EXCEPT ![j].pc = "scan",
                                     ![j].window_start = reading - KNN_WINDOW,
                                     ![j].neighbors = s, ![j].idx = 1,
                                     ![j].assigned_cluster_id = 0,
                                     ![j].max_similarity = 0]
    /\ UNCHANGED <<detectOnly, restVars, ingestVars, spaces, nextSpaceId, embeddings, runs,
                   clusters, nextClusterId, assignments, summaries, written>>

\* One iteration of the loop over neighbors; scalar_one_or_none() raises
\* when the neighbour has more than one assignment in the run.
EmbedScan(j) ==
    /\ ejob[j].pc = "scan"
    /\ IF ejob[j].idx > Len(ejob[j].neighbors)
         THEN ejob' = [ejob EXCEPT ![j].pc = "create_cluster"]
         ELSE LET nb == ejob[j].neighbors[ejob[j].idx]
                  found == ClustersOfArticle(ejob[j].run_id, nb.article_id)
              IN  IF nb.similarity >= ejob[j].threshold
                    THEN IF Cardinality(found) > 1
                           THEN EReturn(j, "raised", "MultipleResultsFound")
                         ELSE IF found # {}
                           THEN \E c \in found :
                                  ejob' = [ejob EXCEPT
                                      ![j].pc = "assign",
                                      ![j].assigned_cluster_id = c,
                                      ![j].max_similarity = nb.similarity,
                                      ![j].neighbor_id = nb.article_id]
                         ELSE ejob' = [ejob EXCEPT ![j].idx = @ + 1]
                    ELSE ejob' = [ejob EXCEPT ![j].idx = @ + 1]
    /\ UNCHANGED <<now, detectOnly, restVars, ingestVars, spaces, nextSpaceId, embeddings, runs,
                   clusters, nextClusterId, assignments, summaries, written>>

\* max_similarity = 1.0  # Perfect similarity with itself
NewClusterSimilarity == 100

\* EmbedCreateCluster, had the new cluster been committed on its own.
EmbedCreateClusterCommitting(j) ==
    /\ ejob[j].pc = "create_cluster"
    /\ LET new_cluster == [id |-> nextClusterId, run_id |-> ejob[j].run_id,
                           window_start |-> ArticleById(ejob[j].article_id).created_at,
                           window_end |-> ArticleById(ejob[j].article_id).created_at,
                           created_at |-> now]
       IN  /\ clusters' = clusters \cup {new_cluster}
           /\ ejob' = [ejob EXCEPT
                 ![j].pc = "assign",
                 ![j].assigned_cluster_id = nextClusterId,
                 ![j].max_similarity = NewClusterSimilarity,
                 ![j].new_cluster = {new_cluster}]
    /\ nextClusterId' = nextClusterId + 1
    /\ UNCHANGED <<now, detectOnly, restVars, ingestVars, spaces, nextSpaceId, embeddings, runs,
                   assignments, summaries, written>>

\* No neighbour qualified: session.add(new_cluster); flush()
EmbedCreateCluster(j) ==
    /\ ejob[j].pc = "create_cluster"
    /\ ejob' = [ejob EXCEPT
          ![j].pc = "assign",
          ![j].assigned_cluster_id = nextClusterId,
          ![j].max_similarity = NewClusterSimilarity,
          ![j].new_cluster =
              {[id |-> nextClusterId, run_id |-> ejob[j].run_id,
                window_start |-> ArticleById(ejob[j].article_id).created_at,
                window_end |-> ArticleById(ejob[j].article_id).created_at,
                created_at |-> now]}]
    /\ nextClusterId' = nextClusterId + 1
    /\ UNCHANGED <<now, detectOnly, restVars, ingestVars, spaces, nextSpaceId, embeddings, runs,
                   clusters, assignments, summaries, written>>

\* session.add(assignment); commit().  The INSERT raises when the row
\* (run_id, cluster_id, article_id) is already committed.
EmbedAssign(j) ==
    /\ ejob[j].pc = "assign"
    /\ LET row == [run_id |-> ejob[j].run_id,
                   cluster_id |-> ejob[j].assigned_cluster_id,
                   article_id |-> ejob[j].article_id,
                   similarity |-> ejob[j].max_similarity]
       IN  IF \E x \in assignments : /\ x.run_id = row.run_id
                                     /\ x.cluster_id = row.cluster_id
                                     /\ x.article_id = row.article_id
             THEN /\ EReturn(j, "raised", "IntegrityError")
                  /\ UNCHANGED <<spaces, embeddings, clusters, assignments, written>>
             ELSE /\ CommitFlushed(j)
                  /\ assignments' = assignments \cup {row}
                  /\ written' = written \cup
                        {[job |-> j, run_id |-> row.run_id,
                          cluster_id |-> row.cluster_id,
                          article_id |-> row.article_id,
                          created |-> ejob[j].new_cluster # {},
                          neighbor_id |-> ejob[j].neighbor_id,
                          at |-> ejob[j].window_start + KNN_WINDOW]}
                  /\ ejob' = [ejob EXCEPT ![j].pc = "trigger",
                                          ![j].new_space = {},
                                          ![j].new_embedding = {},
                                          ![j].new_cluster = {}]
    /\ UNCHANGED <<now, detectOnly, restVars, ingestVars, nextSpaceId, runs, nextClusterId, summaries>>

\* The step submitting a summariser job for every cluster of three or more
\* articles, with or without an active summary.
EmbedTriggerBySize(j) ==
    /\ ejob[j].pc = "trigger"
    /\ IF ArticleCount(ejob[j].assigned_cluster_id) >= SUMMARY_MIN_ARTICLES
         THEN delayed' = Append(delayed,
                  [task |-> "summarize_cluster",
                   cluster_id |-> ejob[j].assigned_cluster_id])
         ELSE UNCHANGED delayed
    /\ ejob' = [ejob EXCEPT ![j] =
          EReturned(j, "embedded_and_clustered", None, ejob[j].assigned_cluster_id)]
    /\ UNCHANGED <<now, detectOnly, restVars, articles, nextArticleId, pjob, spaces, nextSpaceId,
                   embeddings, runs, clusters, nextClusterId, assignments,
                   summaries, written>>

\* The count of the cluster's articles and the check for an active summary;
\* summarize_cluster.delay(cluster_id)
EmbedTrigger(j) ==
    /\ ejob[j].pc = "trigger"
    /\ IF /\ ArticleCount(ejob[j].assigned_cluster_id) >= SUMMARY_MIN_ARTICLES
          /\ ~HasActiveSummary(ejob[j].assigned_cluster_id)
         THEN delayed' = Append(delayed,
                  [task |-> "summarize_cluster",
                   cluster_id |-> ejob[j].assigned_cluster_id])
         ELSE UNCHANGED delayed
    /\ ejob' = [ejob EXCEPT ![j] =
          EReturned(j, "embedded_and_clustered", None, ejob[j].assigned_cluster_id)]
    /\ UNCHANGED <<now, detectOnly, restVars, articles, nextArticleId, pjob, spaces, nextSpaceId,
                   embeddings, runs, clusters, nextClusterId, assignments,
                   summaries, written>>

(***************************************************************************)
(* detect_events: src/backend/app/workers/tasks.py and                     *)
(* detect_anomaly: src/backend/app/services/trending.py.                   *)
(* Velocity, acceleration and score are whole numbers of articles per      *)
(* hour; calculate_trends stores a number in every column read here.       *)
(***************************************************************************)
NDetectJobs == 2
DetectJobs == 1 .. NDetectJobs

\* How far the clock may advance while the detector jobs run.
MaxDetectTicks == 4

ONE_HOUR == 6
THIRTY_MINUTES == 3

VELOCITY_THRESHOLD_LOW == 3
VELOCITY_THRESHOLD_MEDIUM == 7
VELOCITY_THRESHOLD_HIGH == 15
VELOCITY_THRESHOLD_CRITICAL == 30
ACCELERATION_THRESHOLD == 2
MIN_DOC_COUNT == 3

Abs(x) == IF x < 0 THEN 0 - x ELSE x

\* detect_anomaly without the test of doc_count.
detect_anomaly_any_size(current_metrics) ==
    LET velocity == current_metrics.velocity
        acceleration == current_metrics.acceleration
    IN  [is_anomaly |-> velocity >= 3 \/ acceleration >= 2,
         score |-> velocity + 2 * Abs(acceleration),
         severity |-> IF velocity >= 30 THEN "critical"
                      ELSE IF velocity >= 15 THEN "high"
                      ELSE IF velocity >= 7 THEN "medium" ELSE "low"]

\* detect_anomaly with the size of the acceleration in place of its value.
detect_anomaly_unsigned(current_metrics) ==
    LET velocity == current_metrics.velocity
        acceleration == Abs(current_metrics.acceleration)
        anomalous == velocity >= 3 \/ acceleration >= 2
    IN  IF current_metrics.doc_count < 3
          THEN [is_anomaly |-> FALSE, score |-> 0, severity |-> "low"]
        ELSE [is_anomaly |-> anomalous,
              score |-> velocity + 2 * acceleration,
              severity |-> IF ~anomalous THEN "low"
                           ELSE IF velocity >= 30 THEN "critical"
                           ELSE IF velocity >= 15 THEN "high"
                           ELSE IF velocity >= 7 THEN "medium" ELSE "low"]

\* The tuple (is_anomaly, score, severity).
detect_anomaly(current_metrics) ==
    LET velocity == current_metrics.velocity
        acceleration == current_metrics.acceleration
        doc_count == current_metrics.doc_count
        score == velocity + 2 * Abs(acceleration)
        is_anomaly == \/ velocity >= VELOCITY_THRESHOLD_LOW
                      \/ acceleration >= ACCELERATION_THRESHOLD
        severity == IF velocity >= VELOCITY_THRESHOLD_CRITICAL THEN "critical"
                    ELSE IF velocity >= VELOCITY_THRESHOLD_HIGH THEN "high"
                    ELSE IF velocity >= VELOCITY_THRESHOLD_MEDIUM THEN "medium"
                    ELSE "low"
    IN  IF doc_count < MIN_DOC_COUNT
          THEN [is_anomaly |-> FALSE, score |-> 0, severity |-> "low"]
        ELSE IF ~is_anomaly
          THEN [is_anomaly |-> FALSE, score |-> score, severity |-> "low"]
        ELSE [is_anomaly |-> TRUE, score |-> score, severity |-> severity]

\* The select with a bound of two hours instead of one.
RecentMetricsTwoHours(one_hour_ago) ==
    {m \in metrics : m.ts >= one_hour_ago - ONE_HOUR}

\* select(TrendMetric).where(TrendMetric.ts >= one_hour_ago)
RecentMetrics(one_hour_ago) == {m \in metrics : m.ts >= one_hour_ago}

\* cluster_latest_metrics as the list of its values in iteration order: the
\* first metric of each cluster in some ordering of recent_metrics by ts
\* descending (rows of equal ts come in any order).
ClusterLatestMetrics(recent_metrics) ==
    LET ids == {m.cluster_id : m \in recent_metrics}
        n == Cardinality(ids)
    IN  {s \in [1 .. n -> recent_metrics] :
            /\ \A i, k \in 1 .. n : i < k =>
                  /\ s[i].cluster_id # s[k].cluster_id
                  /\ s[i].ts >= s[k].ts
            /\ \A i \in 1 .. n : \A m \in recent_metrics :
                  m.cluster_id = s[i].cluster_id => m.ts <= s[i].ts}

\* The cooldown query with a window of twenty minutes instead of thirty.
ExistingEventWithinTwenty(rows, cluster_id, thirty_mins_ago) ==
    {e \in rows : e.cluster_id = cluster_id /\ e.detected_at > thirty_mins_ago + 1}

\* select(Event).where(Event.cluster_id == cluster_id,
\*                     Event.detected_at >= thirty_mins_ago)
\* over the rows the session sees.
ExistingEvent(rows, cluster_id, thirty_mins_ago) ==
    {e \in rows : e.cluster_id = cluster_id /\ e.detected_at >= thirty_mins_ago}

\* json.dumps({...}) of a flushed event (the label is a function of the
\* metric's velocity and is left out).
EventData(event) ==
    [event_id |-> event.id, cluster_id |-> event.cluster_id,
     severity |-> event.severity, score |-> event.score,
     detected_at |-> event.detected_at]

\* A detect_events job.  pending holds the rows its session has flushed and
\* not committed; broken says that a statement of the session has failed, so
\* that its transaction is aborted.  before and emitted are the job's
\* account of itself: the Event rows committed when it started and the ids
\* of the rows it flushed.
IdleDJob ==
    [pc |-> "idle", timestamp |-> 0, todo |-> << >>, pending |-> {},
     broken |-> FALSE, event |-> {}, events_detected |-> 0, status |-> None,
     before |-> {}, emitted |-> {}]

\* The job is over: its locals are gone.
DReturned(j, status, detected) ==
    [IdleDJob EXCEPT !.pc = "done", !.status = status,
                     !.events_detected = detected,
                     !.timestamp = djob[j].timestamp,
                     !.before = djob[j].before,
                     !.emitted = djob[j].emitted]

\* `continue`, or the end of the loop body.
NextCluster(job) ==
    [job EXCEPT !.todo = Tail(job.todo), !.event = {},
                !.pc = IF Len(job.todo) = 1 THEN "commit" ELSE "loop"]

\* datetime.now(timezone.utc) in a job: a reading not before the last one.
\* Nothing but these readings observes the clock, so time passes in them.
DetectClock == now .. Max(now, ONE_HOUR + MaxDetectTicks)

\* Steps 1 and 2: read the clock, select the metrics of the last hour, keep
\* the latest of each cluster.
DetectBegin(j) ==
    /\ djob[j].pc = "idle"
    /\ JobsStarted < MaxJobs
    /\ \A k \in DetectJobs : k < j => djob[k].pc # "idle"
    /\ \E timestamp \in DetectClock :
          LET recent_metrics == RecentMetrics(timestamp - ONE_HOUR)
              started == [IdleDJob EXCEPT !.timestamp = timestamp,
                                          !.before = events]
          IN  /\ now' = timestamp
              /\ IF recent_metrics = {}
                    THEN djob' = [djob EXCEPT ![j] =
                             [started EXCEPT !.pc = "done",
                                             !.status = "no_metrics"]]
                  ELSE \E todo \in ClusterLatestMetrics(recent_metrics) :
                          djob' = [djob EXCEPT ![j] =
                              [started EXCEPT !.pc = "loop", !.todo = todo]]
    /\ UNCHANGED <<ingestVars, clusterOnly, summaryOnly, streamOnly, trendOnly,
                   metrics, events, nextEventId, published>>

\* A worker starts a run of detect_events.
DetectStart(j) == DetectBegin(j) /\ UNCHANGED beatOnly

\* One pass of the loop up to the flush: the cooldown query, detect_anomaly,
\* the insert of the Event row.  No other session can see or block the
\* insert, so the query and the insert are one step.
DetectCluster(j) ==
    /\ djob[j].pc = "loop"
    /\ LET job == djob[j]
           metric == Head(job.todo)
           cluster_id == metric.cluster_id
           thirty_mins_ago == job.timestamp - THIRTY_MINUTES
           existing_event ==
               ExistingEvent(events \cup job.pending, cluster_id, thirty_mins_ago)
           result == detect_anomaly(metric)
           event == [id |-> nextEventId, run_id |-> metric.run_id,
                     cluster_id |-> cluster_id, detected_at |-> job.timestamp,
                     score |-> result.score, severity |-> result.severity]
       IN  \/ \* a statement fails: the except branch logs and continues
              /\ djob' = [djob EXCEPT ![j] =
                    NextCluster([job EXCEPT !.broken = TRUE, !.pending = {}])]
              /\ UNCHANGED nextEventId
           \/ /\ ~job.broken
              /\ IF existing_event # {} \/ ~result.is_anomaly
                   THEN /\ djob' = [djob EXCEPT ![j] = NextCluster(job)]
                        /\ UNCHANGED nextEventId
                 ELSE /\ nextEventId' = nextEventId + 1
                      /\ djob' = [djob EXCEPT ![j] =
                            [job EXCEPT !.pc = "publish",
                                        !.pending = job.pending \cup {event},
                                        !.event = {event},
                                        !.emitted = job.emitted \cup {event.id}]]
    /\ UNCHANGED <<now, ingestVars, clusterOnly, restVars, metrics, events, published>>

\* redis_client.publish("events", event_data); when Redis refuses, the
\* except branch logs and continues, and the flushed row stays in the session.
DetectPublish(j) ==
    /\ djob[j].pc = "publish"
    /\ LET job == djob[j]
       IN  \E event \in job.event :
             \/ /\ published' = published \cup {EventData(event)}
                /\ djob' = [djob EXCEPT ![j] =
                      NextCluster([job EXCEPT
                          !.events_detected = job.events_detected + 1])]
             \/ /\ djob' = [djob EXCEPT ![j] = NextCluster(job)]
                /\ UNCHANGED published
    /\ UNCHANGED <<now, ingestVars, clusterOnly, restVars, metrics, events, nextEventId>>

\* await session.commit().  In an aborted transaction nothing is persisted:
\* the commit raises or ends the transaction by a rollback, as the driver
\* has it.  Otherwise the commit persists the flushed rows, or fails and
\* persists none.
DetectCommit(j) ==
    /\ djob[j].pc = "commit"
    /\ LET job == djob[j]
       IN  \/ /\ ~job.broken
              /\ events' = events \cup job.pending
              /\ djob' = [djob EXCEPT ![j] =
                    DReturned(j, "success", job.events_detected)]
           \/ /\ job.broken
              /\ UNCHANGED events
              /\ djob' = [djob EXCEPT ![j] =
                    DReturned(j, "success", job.events_detected)]
           \/ /\ UNCHANGED events
              /\ djob' = [djob EXCEPT ![j] = DReturned(j, "raised", 0)]
    /\ UNCHANGED <<now, ingestVars, clusterOnly, restVars, metrics, nextEventId, published>>


(***************************************************************************)
(* summarize_cluster (tasks.py).  Each job has its own session on a        *)
(* READ COMMITTED database: the UPDATE that deactivates the summaries of   *)
(* the cluster sees the rows committed when it starts, waits for the row   *)
(* locks another session holds on them and keeps its own locks until its   *)
(* transaction ends; the INSERT of the new row is flushed by commit().     *)
(***************************************************************************)
NSummaryJobs == 2

SummaryJobs == 1..NSummaryJobs

\* The cluster ids a job is started with: clusters 1 and 2 of the tables
\* below and an id no cluster has.
SummaryArgs == {1, 2, 9}

\* What generate_cluster_summary returns: the sections parsed from the
\* response, which are empty strings when the response has no section marks.
SummarySections == {"sections", "empty"}

IdleSJob ==
    [pc |-> "idle", cluster_id |-> 0, run_id |-> 0, sections |-> None,
     next_version |-> 0, targets |-> {}, locked |-> {}, status |-> None,
     message |-> None, summary_id |-> 0, version |-> 0]

SReturned(j, status, message, summary_id, version) ==
    [IdleSJob EXCEPT !.pc = "done", !.cluster_id = sjob[j].cluster_id,
                     !.status = status, !.message = message,
                     !.summary_id = summary_id, !.version = version]

\* The committed rows of cluster_summaries of one cluster.
SummariesOfCluster(cluster_id) ==
    {sm \in summaries : sm.cluster_id = cluster_id}

\* The table after the session of a job is left without commit: the
\* transaction is rolled back, so the committed rows are what they were.
SessionClosedDeactivating(j) ==
    {[sm EXCEPT !.is_active = sm.is_active /\ sm.cluster_id # sjob[j].cluster_id] :
        sm \in summaries}

SessionClosed(j) == summaries

\* max(version) read one too high.
MaxVersionSkipping(rows) ==
    1 + Cardinality({sm.version : sm \in rows})

\* select(func.max(ClusterSummary.version)), None read as 0.
MaxVersion(rows) ==
    IF rows = {} THEN 0
    ELSE CHOOSE v \in {sm.version : sm \in rows} :
            \A sm \in rows : sm.version <= v

\* The rows the UPDATE of a job changes: the summaries of its cluster.
DeactivationTargetsNone(cluster_id) == {}

DeactivationTargets(cluster_id) ==
    {sm.id : sm \in SummariesOfCluster(cluster_id)}

\* The articles of a cluster: Article joined with ArticleCluster.
ArticlesOfCluster(cluster_id) ==
    {a \in articles :
        \E ac \in assignments :
            ac.article_id = a.id /\ ac.cluster_id = cluster_id}

\* session.get(Cluster, cluster_id).
SummarizeStart(j) ==
    /\ sjob[j].pc = "idle"
    /\ JobsStarted < MaxJobs
    /\ \A k \in SummaryJobs : k < j => sjob[k].pc # "idle"
    /\ \E cluster_id \in SummaryArgs :
          LET found == {c \in clusters : c.id = cluster_id} IN
          IF found = {}
          THEN /\ sjob' = [sjob EXCEPT ![j] =
                    [IdleSJob EXCEPT !.pc = "done", !.cluster_id = cluster_id,
                                     !.status = "error",
                                     !.message = "Cluster not found"]]
               /\ summaries' = summaries
          ELSE /\ \E cluster \in found :
                    sjob' = [sjob EXCEPT ![j] =
                        [IdleSJob EXCEPT !.pc = "articles",
                                         !.cluster_id = cluster_id,
                                         !.run_id = cluster.run_id]]
               /\ summaries' = summaries
    /\ UNCHANGED <<now, ingestVars, beatOnly, detectOnly, spaces, nextSpaceId, embeddings, runs,
                   clusters, nextClusterId, assignments, ejob, written, nextSummaryId,
                   streamOnly, trendOnly>>

\* The select of the articles of the cluster and of their sources.
SummarizeArticles(j) ==
    /\ sjob[j].pc = "articles"
    /\ IF ArticlesOfCluster(sjob[j].cluster_id) = {}
       THEN /\ sjob' = [sjob EXCEPT ![j] =
                 SReturned(j, "error", "No articles in cluster", 0, 0)]
            /\ summaries' = SessionClosed(j)
       ELSE /\ sjob' = [sjob EXCEPT ![j].pc = "generate"]
            /\ summaries' = summaries
    /\ UNCHANGED <<now, ingestVars, beatOnly, detectOnly, spaces, nextSpaceId, embeddings, runs,
                   clusters, nextClusterId, assignments, ejob, written, nextSummaryId,
                   streamOnly, trendOnly>>

\* generate_cluster_summary raises: the job returns an error from inside the
\* session block.
SummarizeGenerateFail(j) ==
    /\ sjob[j].pc = "generate"
    /\ sjob' = [sjob EXCEPT ![j] = SReturned(j, "error", "summariser", 0, 0)]
    /\ summaries' = SessionClosed(j)
    /\ UNCHANGED <<now, ingestVars, beatOnly, detectOnly, spaces, nextSpaceId, embeddings, runs,
                   clusters, nextClusterId, assignments, ejob, written, nextSummaryId,
                   streamOnly, trendOnly>>

\* generate_cluster_summary returns, and the job reads max(version).
SummarizeGenerateOk(j) ==
    /\ sjob[j].pc = "generate"
    /\ \E sections \in SummarySections :
          sjob' = [sjob EXCEPT
              ![j].pc = "deactivate",
              ![j].sections = sections,
              ![j].next_version =
                  MaxVersion(SummariesOfCluster(sjob[j].cluster_id)) + 1]
    /\ UNCHANGED <<now, ingestVars, beatOnly, detectOnly, clusterOnly, streamOnly, trendOnly,
                   nextSummaryId>>

\* The UPDATE starts: it will change the rows of the cluster committed now.
SummarizeDeactivate(j) ==
    /\ sjob[j].pc = "deactivate"
    /\ sjob' = [sjob EXCEPT
          ![j].pc = "locking",
          ![j].targets = DeactivationTargets(sjob[j].cluster_id)]
    /\ UNCHANGED <<now, ingestVars, beatOnly, detectOnly, clusterOnly, streamOnly, trendOnly,
                   nextSummaryId>>

\* The UPDATE ends once no other session holds a lock on one of its rows.
SummarizeLock(j) ==
    /\ sjob[j].pc = "locking"
    /\ \A k \in SummaryJobs \ {j} : sjob[k].locked \cap sjob[j].targets = {}
    /\ sjob' = [sjob EXCEPT ![j].pc = "insert",
                            ![j].locked = sjob[j].targets,
                            ![j].targets = {}]
    /\ UNCHANGED <<now, ingestVars, beatOnly, detectOnly, clusterOnly, streamOnly, trendOnly,
                   nextSummaryId>>

\* session.add(new_summary); commit().  The INSERT takes the next id of the
\* sequence; a committed row with the same (cluster_id, version) makes it
\* raise IntegrityError, which nothing catches, and the transaction is
\* rolled back.
SummarizeCommit(j) ==
    /\ sjob[j].pc = "insert"
    /\ LET job == sjob[j]
           new_summary ==
               [id |-> nextSummaryId, cluster_id |-> job.cluster_id,
                run_id |-> job.run_id, version |-> job.next_version,
                sections |-> job.sections, is_active |-> TRUE]
       IN  /\ nextSummaryId' = nextSummaryId + 1
           /\ IF \E sm \in summaries :
                    sm.cluster_id = job.cluster_id /\ sm.version = job.next_version
              THEN /\ summaries' = SessionClosed(j)
                   /\ sjob' = [sjob EXCEPT ![j] =
                         SReturned(j, "raised", "IntegrityError", 0, 0)]
              ELSE /\ summaries' =
                         {IF sm.id \in job.locked
                          THEN [sm EXCEPT !.is_active = FALSE] ELSE sm :
                             sm \in summaries} \cup {new_summary}
                   /\ sjob' = [sjob EXCEPT ![j] =
                         SReturned(j, "success", None, new_summary.id,
                                   job.next_version)]
    /\ UNCHANGED <<now, ingestVars, beatOnly, detectOnly, spaces, nextSpaceId, embeddings, runs,
                   clusters, nextClusterId, assignments, ejob, written, streamOnly,
                   trendOnly>>


(***************************************************************************)
(* The event stream (routes_stream.py) and the channel "events".  Redis    *)
(* sends a published message to the connections subscribed when it is      *)
(* published, in order, and keeps no history.  pubsub.subscribe returns    *)
(* once the command is sent; the server subscribes the connection when it  *)
(* reads the command.  A command on a connection raises only when the      *)
(* connection is lost, and the server drops the subscriptions of a lost    *)
(* connection.                                                              *)
(***************************************************************************)
NSessions == 2

Sessions == 1..NSessions

MaxPublished == 3

\* json.dumps of the event a publisher sends when n events were published
\* before: every event has its own text (its id or its detected_at).
EventJson(n) == n + 1

\* The publisher's client encodes the string it is given ...
Encode(payload) == <<"utf-8", payload>>

\* ... and the session's client, built with decode_responses=True, decodes.
Decode(data) == data[2]

IdleStream ==
    [pc |-> "idle", connected |-> FALSE, conn |-> "none", sent |-> FALSE,
     sub_at |-> 0 - 1, unsub_at |-> 0 - 1, forwarded |-> << >>]

\* The connections a published message is sent to.
SubscribersEveryConnection == Sessions

Subscribers == {s \in Sessions : subscribed[s]}

\* request.is_disconnected().
is_disconnected_never(s) == FALSE

is_disconnected(s) == ~stream[s].connected

ConnectedEvent == [event |-> "connected", data |-> "Connected to event stream"]

ErrorEvent == [event |-> "error", data |-> "error"]

\* The state of the server and of the connection of session s once the
\* connection is lost.
Lost(s) ==
    /\ subscribed' = [subscribed EXCEPT ![s] = FALSE]
    /\ inbox' = [inbox EXCEPT ![s] = << >>]

\* A publisher: r.publish("events", json.dumps(event)).
Publish ==
    /\ Len(channelLog) < MaxPublished
    /\ \E payload \in {EventJson(Len(channelLog))} :
          /\ channelLog' = Append(channelLog, payload)
          /\ inbox' = [s \in Sessions |->
                IF s \in Subscribers
                THEN Append(inbox[s], [type |-> "message", data |-> Encode(payload)])
                ELSE inbox[s]]
    /\ UNCHANGED <<now, ingestVars, beatOnly, clusterOnly, detectOnly, summaryOnly, trendOnly,
                   subscribed, stream>>

\* The server reads the SUBSCRIBE of session s and confirms it.
RedisSubscribe(s) ==
    /\ stream[s].sent /\ stream[s].conn = "open"
    /\ subscribed' = [subscribed EXCEPT ![s] = TRUE]
    /\ inbox' = [inbox EXCEPT ![s] =
          Append(@, [type |-> "subscribe", data |-> 1])]
    /\ stream' = [stream EXCEPT ![s].sent = FALSE,
                                ![s].sub_at = Len(channelLog)]
    /\ UNCHANGED <<now, ingestVars, beatOnly, clusterOnly, detectOnly, summaryOnly, trendOnly, channelLog>>

\* The client closes the HTTP connection.
ClientDisconnect(s) ==
    /\ stream[s].pc \notin {"idle", "ended"}
    /\ stream[s].connected
    /\ stream' = [stream EXCEPT ![s].connected = FALSE]
    /\ UNCHANGED <<now, ingestVars, beatOnly, clusterOnly, detectOnly, summaryOnly, trendOnly,
                   channelLog, subscribed, inbox>>

\* GET /stream/events: from_url and pubsub() open no connection yet.
StreamOpen(s) ==
    /\ stream[s].pc = "idle"
    /\ \A t \in Sessions : t < s => stream[t].pc # "idle"
    /\ stream' = [stream EXCEPT ![s].pc = "subscribe", ![s].connected = TRUE]
    /\ UNCHANGED <<now, ingestVars, beatOnly, clusterOnly, detectOnly, summaryOnly, trendOnly,
                   channelLog, subscribed, inbox>>

\* await pubsub.subscribe("events"): the connection is made and the command
\* sent, or the call raises and the handler yields an error event.
StreamSubscribe(s) ==
    /\ stream[s].pc = "subscribe"
    /\ \/ stream' = [stream EXCEPT ![s].pc = "connected", ![s].conn = "open",
                                   ![s].sent = TRUE]
       \/ stream' = [stream EXCEPT ![s].pc = "unsubscribe", ![s].conn = "lost",
                                   ![s].forwarded = Append(@, ErrorEvent)]
    /\ UNCHANGED <<now, ingestVars, beatOnly, clusterOnly, detectOnly, summaryOnly, trendOnly,
                   channelLog, subscribed, inbox>>

\* yield of the connected event.
StreamConnected(s) ==
    /\ stream[s].pc = "connected"
    /\ stream' = [stream EXCEPT ![s].pc = "loop",
                                ![s].forwarded = Append(@, ConnectedEvent)]
    /\ UNCHANGED <<now, ingestVars, beatOnly, clusterOnly, detectOnly, summaryOnly, trendOnly,
                   channelLog, subscribed, inbox>>

\* The head of the loop.
StreamCheck(s) ==
    /\ stream[s].pc = "loop"
    /\ stream' = [stream EXCEPT ![s].pc =
          IF is_disconnected(s) THEN "unsubscribe" ELSE "get"]
    /\ UNCHANGED <<now, ingestVars, beatOnly, clusterOnly, detectOnly, summaryOnly, trendOnly,
                   channelLog, subscribed, inbox>>

\* get_message(ignore_subscribe_messages=True) within one second: nothing
\* (None or TimeoutError), a confirmation (None), or a message, which is
\* yielded as new_event.
StreamGet(s) ==
    /\ stream[s].pc = "get"
    /\ stream[s].conn = "open"
    /\ IF inbox[s] = << >>
       THEN /\ stream' = [stream EXCEPT ![s].pc = "loop"]
            /\ inbox' = inbox
       ELSE LET message == Head(inbox[s]) IN
            /\ inbox' = [inbox EXCEPT ![s] = Tail(@)]
            /\ IF message.type = "message"
               THEN stream' = [stream EXCEPT
                        ![s].pc = "loop",
                        ![s].forwarded = Append(@,
                            [event |-> "new_event",
                             data |-> Decode(message.data)])]
               ELSE stream' = [stream EXCEPT ![s].pc = "loop"]
    /\ UNCHANGED <<now, ingestVars, beatOnly, clusterOnly, detectOnly, summaryOnly, trendOnly,
                   channelLog, subscribed>>

\* get_message raises, with the connection lost or not; the handler yields
\* an error event.
StreamGetFail(s) ==
    /\ stream[s].pc = "get"
    /\ \/ /\ stream' = [stream EXCEPT ![s].pc = "unsubscribe",
                                      ![s].forwarded = Append(@, ErrorEvent)]
          /\ UNCHANGED <<subscribed, inbox>>
       \/ /\ stream' = [stream EXCEPT
                ![s].pc = "unsubscribe", ![s].conn = "lost", ![s].sent = FALSE,
                ![s].unsub_at = IF subscribed[s] THEN Len(channelLog) ELSE @,
                ![s].forwarded = Append(@, ErrorEvent)]
          /\ Lost(s)
    /\ UNCHANGED <<now, ingestVars, beatOnly, clusterOnly, detectOnly, summaryOnly, trendOnly, channelLog>>

\* finally: await pubsub.unsubscribe("events").  The server reads the
\* commands of a connection in order.  On a lost connection the client
\* connects again, or the call raises and the generator ends there.
StreamUnsubscribe(s) ==
    /\ stream[s].pc = "unsubscribe"
    /\ \/ /\ stream' = [stream EXCEPT
                ![s].pc = "close", ![s].conn = "open", ![s].sent = FALSE,
                ![s].unsub_at = IF subscribed[s] THEN Len(channelLog) ELSE @]
          /\ subscribed' = [subscribed EXCEPT ![s] = FALSE]
          /\ inbox' = inbox
       \/ /\ stream[s].conn = "lost"
          /\ stream' = [stream EXCEPT ![s].pc = "ended"]
          /\ UNCHANGED <<subscribed, inbox>>
    /\ UNCHANGED <<now, ingestVars, beatOnly, clusterOnly, detectOnly, summaryOnly, trendOnly, channelLog>>

\* finally: await pubsub.close(); await redis_client.close().
StreamClose(s) ==
    /\ stream[s].pc = "close"
    /\ stream' = [stream EXCEPT ![s].pc = "ended", ![s].conn = "closed"]
    /\ inbox' = [inbox EXCEPT ![s] = << >>]
    /\ UNCHANGED <<now, ingestVars, beatOnly, clusterOnly, detectOnly, summaryOnly, trendOnly,
                   channelLog, subscribed>>

\* The steps of the generator of session s.
StreamStep(s) ==
    \/ StreamSubscribe(s)
    \/ StreamConnected(s)
    \/ StreamCheck(s)
    \/ StreamGet(s)
    \/ StreamGetFail(s)
    \/ StreamUnsubscribe(s)
    \/ StreamClose(s)


(***************************************************************************)
(* calculate_trends (tasks.py) and the metric queries of trending.py.      *)
(* Every query is a statement of its own on the committed tables.  A row   *)
(* added to the session is inserted by the flush before the next query or  *)
(* by the commit.                                                           *)
(***************************************************************************)
NTrendJobs == 2

TrendJobs == 1..NTrendJobs

MaxTrendTicks == 1

TWENTY_FOUR_HOURS == 144

SIX_HOURS == 36

TWO_HOURS == 12

\* The rows of article_clusters of a cluster in a run.
AssignmentsOf(cluster_id, run_id) ==
    {ac \in assignments : ac.cluster_id = cluster_id /\ ac.run_id = run_id}

\* Article joined with them.
ArticlesOf(cluster_id, run_id) ==
    {a \in articles :
        \E ac \in AssignmentsOf(cluster_id, run_id) : ac.article_id = a.id}

DocCount(cluster_id, run_id) == Cardinality(AssignmentsOf(cluster_id, run_id))

UniqueSources(cluster_id, run_id) ==
    Cardinality({a.source_id : a \in ArticlesOf(cluster_id, run_id)})

\* The articles of the cluster created from `since` to `timestamp`: the
\* velocity with since = timestamp - 1 h, recent_count with 6 h.
CreatedWithin(cluster_id, run_id, since, timestamp) ==
    Cardinality({a \in ArticlesOf(cluster_id, run_id) :
                    a.created_at >= since /\ a.created_at <= timestamp})

\* recent_count / doc_count, in hundredths.
Novelty(recent_count, doc_count) ==
    IF doc_count > 0 THEN (100 * recent_count) \div doc_count ELSE 0

\* calculate_acceleration without the limit of two hours.
calculate_acceleration_any_age(cluster_id, run_id, current_velocity, timestamp) ==
    LET previous == {m \in metrics :
                        /\ m.cluster_id = cluster_id /\ m.run_id = run_id
                        /\ m.ts < timestamp}
    IN  IF previous = {} THEN 0
        ELSE LET previous_metric ==
                     CHOOSE m \in previous : \A o \in previous : o.ts <= m.ts
             IN  (6 * (current_velocity - previous_metric.velocity))
                     \div (timestamp - previous_metric.ts)

\* calculate_acceleration: the change of velocity since the latest metric of
\* the last two hours, per hour (an hour is six units of time; the division
\* is exact for the instants of the model).
calculate_acceleration(cluster_id, run_id, current_velocity, timestamp) ==
    LET two_hours_ago == timestamp - TWO_HOURS
        previous == {m \in metrics :
                        /\ m.cluster_id = cluster_id /\ m.run_id = run_id
                        /\ m.ts < timestamp /\ m.ts >= two_hours_ago}
    IN  IF previous = {} THEN 0
        ELSE LET previous_metric ==
                     CHOOSE m \in previous : \A o \in previous : o.ts <= m.ts
             IN  (6 * (current_velocity - previous_metric.velocity))
                     \div (timestamp - previous_metric.ts)

\* The primary key of trend_metrics.
MetricKey(m) == <<m.ts, m.cluster_id, m.run_id>>

IdleTJob ==
    [pc |-> "idle", timestamp |-> 0, todo |-> {}, doc_count |-> 0,
     unique_sources |-> 0, velocity |-> 0, novelty |-> 0, added |-> {},
     flushed |-> {}, broken |-> FALSE, metrics_calculated |-> 0,
     status |-> None, selected |-> {}]

TReturned(j, status, calculated) ==
    [IdleTJob EXCEPT !.pc = "done", !.status = status,
                     !.metrics_calculated = calculated,
                     !.timestamp = tjob[j].timestamp]

\* The cluster of the current pass of the loop.
CurrentCluster(job) ==
    CHOOSE c \in job.todo : \A o \in job.todo : c.id <= o.id

\* `continue`, or the end of the loop body.
NextTrendCluster(job) ==
    [job EXCEPT !.todo = job.todo \ {CurrentCluster(job)},
                !.doc_count = 0, !.unique_sources = 0, !.velocity = 0,
                !.novelty = 0,
                !.pc = IF Cardinality(job.todo) = 1 THEN "commit"
                       ELSE "doc_count"]

\* A row of the session meets a committed row with its key.
KeyTaken(rows) ==
    \E r \in rows, m \in metrics : MetricKey(r) = MetricKey(m)

\* Another session has inserted a row with the key and not yet committed:
\* the insert waits.
KeyHeld(j, rows) ==
    \E k \in TrendJobs \ {j} :
        \E r \in rows, o \in tjob[k].flushed : MetricKey(r) = MetricKey(o)

TrendClock == now .. Max(now, KNN_WINDOW + MaxTrendTicks)

\* The clock reading and the select of the clusters of active runs created
\* in the last 24 hours (kept in selected for the properties).
TrendBegin(j) ==
    /\ tjob[j].pc = "idle"
    /\ JobsStarted < MaxJobs
    /\ \A k \in TrendJobs : k < j => tjob[k].pc # "idle"
    /\ \E timestamp \in TrendClock :
          LET twenty_four_hours_ago == timestamp - TWENTY_FOUR_HOURS
              found == {c \in clusters :
                          /\ \E r \in runs : r.id = c.run_id /\ r.is_active
                          /\ c.created_at >= twenty_four_hours_ago}
              started == [IdleTJob EXCEPT !.timestamp = timestamp]
          IN  /\ now' = timestamp
              /\ IF found = {}
                    THEN tjob' = [tjob EXCEPT ![j] =
                             [started EXCEPT !.pc = "done",
                                             !.status = "no_clusters"]]
                  ELSE tjob' = [tjob EXCEPT ![j] =
                           [started EXCEPT !.pc = "doc_count", !.todo = found,
                                           !.selected = found]]
    /\ UNCHANGED <<ingestVars, clusterOnly, detectOnly, summaryOnly, streamOnly>>

\* A worker starts a run of calculate_trends.
TrendStart(j) == TrendBegin(j) /\ UNCHANGED beatOnly

\* The first query of a pass, before which the row of the pass before is
\* flushed.  In a broken transaction, or when the insert meets a committed
\* key, the statement raises and the except branch continues.
TrendDocCount(j) ==
    /\ tjob[j].pc = "doc_count"
    /\ ~KeyHeld(j, tjob[j].added)
    /\ LET job == tjob[j]
           cluster == CurrentCluster(job)
       IN  IF job.broken \/ KeyTaken(job.added)
           THEN tjob' = [tjob EXCEPT ![j] =
                    NextTrendCluster([job EXCEPT !.broken = TRUE, !.added = {},
                                                 !.flushed = {}])]
           ELSE tjob' = [tjob EXCEPT ![j] =
                    [job EXCEPT !.pc = "unique_sources",
                                !.flushed = job.flushed \cup job.added,
                                !.added = {},
                                !.doc_count = DocCount(cluster.id, cluster.run_id)]]
    /\ UNCHANGED <<now, ingestVars, beatOnly, clusterOnly, detectOnly, summaryOnly, streamOnly>>

TrendUniqueSources(j) ==
    /\ tjob[j].pc = "unique_sources"
    /\ LET cluster == CurrentCluster(tjob[j])
       IN  tjob' = [tjob EXCEPT
               ![j].pc = "velocity",
               ![j].unique_sources = UniqueSources(cluster.id, cluster.run_id)]
    /\ UNCHANGED <<now, ingestVars, beatOnly, clusterOnly, detectOnly, summaryOnly, streamOnly>>

TrendVelocity(j) ==
    /\ tjob[j].pc = "velocity"
    /\ LET job == tjob[j]
           cluster == CurrentCluster(job)
           one_hour_ago == job.timestamp - ONE_HOUR
       IN  tjob' = [tjob EXCEPT
               ![j].pc = "novelty",
               ![j].velocity = CreatedWithin(cluster.id, cluster.run_id,
                                             one_hour_ago, job.timestamp)]
    /\ UNCHANGED <<now, ingestVars, beatOnly, clusterOnly, detectOnly, summaryOnly, streamOnly>>

TrendNovelty(j) ==
    /\ tjob[j].pc = "novelty"
    /\ LET job == tjob[j]
           cluster == CurrentCluster(job)
           six_hours_ago == job.timestamp - SIX_HOURS
           recent_count == CreatedWithin(cluster.id, cluster.run_id,
                                         six_hours_ago, job.timestamp)
       IN  tjob' = [tjob EXCEPT
               ![j].pc = "acceleration",
               ![j].novelty = Novelty(recent_count, job.doc_count)]
    /\ UNCHANGED <<now, ingestVars, beatOnly, clusterOnly, detectOnly, summaryOnly, streamOnly>>

\* calculate_acceleration and session.add(trend_metric).
TrendAcceleration(j) ==
    /\ tjob[j].pc = "acceleration"
    /\ LET job == tjob[j]
           cluster == CurrentCluster(job)
           acceleration == calculate_acceleration(cluster.id, cluster.run_id,
                                                  job.velocity, job.timestamp)
           trend_metric ==
               [ts |-> job.timestamp, cluster_id |-> cluster.id,
                run_id |-> cluster.run_id, doc_count |-> job.doc_count,
                unique_sources |-> job.unique_sources,
                velocity |-> job.velocity, acceleration |-> acceleration,
                novelty |-> job.novelty]
       IN  tjob' = [tjob EXCEPT ![j] =
               NextTrendCluster([job EXCEPT
                   !.added = {trend_metric},
                   !.metrics_calculated = job.metrics_calculated + 1])]
    /\ UNCHANGED <<now, ingestVars, beatOnly, clusterOnly, detectOnly, summaryOnly, streamOnly>>

\* A query of the pass fails: the except branch logs and continues, and the
\* transaction is broken.
TrendFail(j) ==
    /\ tjob[j].pc \in {"unique_sources", "velocity", "novelty", "acceleration"}
    /\ tjob' = [tjob EXCEPT ![j] =
          NextTrendCluster([tjob[j] EXCEPT !.broken = TRUE, !.added = {},
                                           !.flushed = {}])]
    /\ UNCHANGED <<now, ingestVars, beatOnly, clusterOnly, detectOnly, summaryOnly, streamOnly>>

\* await session.commit(): the last row is flushed and the rows are
\* committed; or the insert meets a committed key, or the commit fails, and
\* the job raises.  In a broken transaction nothing is persisted: the commit
\* raises or ends the transaction by a rollback, as the driver has it.
TrendCommit(j) ==
    /\ tjob[j].pc = "commit"
    /\ ~KeyHeld(j, tjob[j].added)
    /\ LET job == tjob[j]
       IN  \/ /\ ~job.broken /\ ~KeyTaken(job.added)
              /\ metrics' = metrics \cup job.flushed \cup job.added
              /\ tjob' = [tjob EXCEPT ![j] =
                    TReturned(j, "success", job.metrics_calculated)]
           \/ /\ job.broken
              /\ metrics' = metrics
              /\ tjob' = [tjob EXCEPT ![j] =
                    TReturned(j, "success", job.metrics_calculated)]
           \/ /\ metrics' = metrics
              /\ tjob' = [tjob EXCEPT ![j] = TReturned(j, "raised", 0)]
    /\ UNCHANGED <<now, ingestVars, beatOnly, clusterOnly, summaryOnly, streamOnly,
                   events, nextEventId, published, djob>>


(***************************************************************************)
(* Initial states and specifications.                                      *)
(***************************************************************************)
SummaryJobsIdle ==
    /\ nextSummaryId = 1
    /\ sjob = [j \in SummaryJobs |-> IdleSJob]

\* The jobs of the other subsystems have not run.
NoStream ==
    /\ channelLog = << >>
    /\ subscribed = [s \in Sessions |-> FALSE]
    /\ inbox = [s \in Sessions |-> << >>]
    /\ stream = [s \in Sessions |-> IdleStream]

TrendJobsIdle == tjob = [j \in TrendJobs |-> IdleTJob]

(***************************************************************************)
(* Celery beat, the broker and the worker's consumer.                      *)
(***************************************************************************)
\* How many messages of one task the broker holds at a time.
MaxQueued == 1

\* celery_app.conf.beat_schedule: the task each entry sends.  Both entries
\* carry options.expires.
beat_schedule == {"tasks.ingest_all_sources", "tasks.calculate_trends"}

\* The tasks the worker imports from app.workers.tasks, by name.
RegisteredTasks ==
    {"tasks.process_article_url", "tasks.ingest_source",
     "tasks.embed_and_cluster_article", "tasks.summarize_cluster",
     "tasks.calculate_trends", "tasks.detect_events",
     "tasks.index_article_in_search"}

\* The task names whose messages the model follows.
QueuedTasks == beat_schedule \cup {"tasks.detect_events"}

BrokerIdle ==
    /\ queue = [t \in QueuedTasks |-> 0]
    /\ handled = [task |-> None, outcome |-> None]

\* The message leaves the broker with the given outcome.
Take(task, outcome) ==
    /\ queue[task] > 0
    /\ queue' = [queue EXCEPT ![task] = @ - 1]
    /\ handled' = [task |-> task, outcome |-> outcome]

jobVars ==
    <<now, ingestVars, clusterOnly, detectOnly, summaryOnly, streamOnly, trendOnly>>

\* Beat sends the task of a schedule entry when its period has passed.
BeatTick(task) ==
    /\ task \in beat_schedule
    /\ queue[task] < MaxQueued
    /\ queue' = [queue EXCEPT ![task] = @ + 1]
    /\ UNCHANGED <<handled, jobVars>>

\* The message was not started before its expires and is dropped.
MessageExpires(task) ==
    /\ task \in beat_schedule
    /\ Take(task, "expired")
    /\ UNCHANGED jobVars

\* The worker's consumer receives a message whose task name is not in its
\* registry: it logs "Received unregistered task" and drops the message.
WorkerRejects(task) ==
    /\ task \notin RegisteredTasks
    /\ Take(task, "unregistered")
    /\ UNCHANGED jobVars

\* The worker receives tasks.calculate_trends and runs it.
WorkerRunsTrends(j) ==
    /\ Take("tasks.calculate_trends", "received")
    /\ TrendBegin(j)

\* The worker receives tasks.detect_events and runs it.
WorkerRunsDetect(j) ==
    /\ Take("tasks.detect_events", "received")
    /\ DetectBegin(j)

\* An operator submits detect_events by hand, as trigger_events.py tells.
ManualDetect ==
    /\ queue["tasks.detect_events"] < MaxQueued
    /\ queue' = [queue EXCEPT !["tasks.detect_events"] = @ + 1]
    /\ UNCHANGED <<handled, jobVars>>

RestIdle == SummaryJobsIdle /\ NoStream /\ TrendJobsIdle /\ BrokerIdle

DetectTablesEmpty ==
    /\ metrics = {}
    /\ events = {} /\ nextEventId = 1
    /\ published = {}
    /\ djob = [j \in DetectJobs |-> IdleDJob]

ClusterTablesEmpty ==
    /\ spaces = {} /\ nextSpaceId = 1
    /\ embeddings = {}
    /\ runs = {}
    /\ clusters = {} /\ nextClusterId = 1
    /\ assignments = {}
    /\ summaries = {}
    /\ written = {}

\* An article ingested before the jobs of the model run.
StoredBefore ==
    [id |-> 1, source_id |-> 1, url |-> "u2", simhash_64 |-> {0, 1, 2, 3},
     text_content |-> "text", created_at |-> 0]

IngestInit ==
    /\ now = 0
    /\ articles \in {{}, {StoredBefore}}
    /\ nextArticleId = 2
    /\ pjob = [j \in IngestJobs |-> IdlePJob]
    /\ delayed = << >>
    /\ ClusterTablesEmpty
    /\ ejob = [j \in EmbedJobs |-> IdleEJob]
    /\ DetectTablesEmpty
    /\ RestIdle

IngestNext ==
    \E j \in IngestJobs :
        \/ ProcessStart(j)
        \/ ProcessFetchFail(j)
        \/ ProcessFetchOk(j)
        \/ ProcessCheckUrl(j)
        \/ ProcessScan(j)
        \/ ProcessInsert(j)
        \/ ProcessFanout(j)

SpecIngest == IngestInit /\ [][IngestNext]_vars

\* The articles in the database when the embed-and-cluster jobs of the model
\* run: article 1 is exactly 48 hours old, article 4 has no text and
\* article 5 only blank text.
ClusterArticles ==
    { [id |-> 1, source_id |-> 1, url |-> "u1", simhash_64 |-> {},
       text_content |-> "text", created_at |-> 0],
      [id |-> 2, source_id |-> 1, url |-> "u2", simhash_64 |-> {0, 1, 2, 3},
       text_content |-> "text", created_at |-> KNN_WINDOW - 8],
      [id |-> 3, source_id |-> 2, url |-> "u3", simhash_64 |-> {},
       text_content |-> "text", created_at |-> KNN_WINDOW],
      [id |-> 4, source_id |-> 2, url |-> "u4", simhash_64 |-> NullHash,
       text_content |-> None, created_at |-> KNN_WINDOW],
      [id |-> 5, source_id |-> 2, url |-> "u5", simhash_64 |-> NullHash,
       text_content |-> "blank", created_at |-> KNN_WINDOW] }

Space1 == [id |-> 1, name |-> DEFAULT_EMBEDDING_SPACE, dims |-> DEFAULT_EMBEDDING_DIMS]

StoredEmbeddings ==
    { [space_id |-> 1, article_id |-> 1, embedding |-> 1],
      [space_id |-> 1, article_id |-> 2, embedding |-> 2] }

RunParams == { {}, {<<"threshold", 75>>}, {<<"threshold", 90>>} }

Cluster1 ==
    [id |-> 1, run_id |-> 1, window_start |-> 0, window_end |-> 0, created_at |-> 0]

Assignment1 == [run_id |-> 1, cluster_id |-> 1, article_id |-> 1, similarity |-> 100]

Assignment2 == [run_id |-> 1, cluster_id |-> 1, article_id |-> 2, similarity |-> 90]

\* The database before the jobs: empty; or the space with no active run; or
\* an active run in which article 1 founded cluster 1 and article 2 either
\* joined it or was embedded while no run was active.
ClusterInit ==
    /\ now = KNN_WINDOW
    /\ articles = ClusterArticles
    /\ nextArticleId = 6
    /\ pjob = [j \in IngestJobs |-> IdlePJob]
    /\ delayed = << >>
    /\ summaries = {}
    /\ written = {}
    /\ ejob = [j \in EmbedJobs |-> IdleEJob]
    /\ DetectTablesEmpty
    /\ RestIdle
    /\ \/ /\ spaces = {} /\ nextSpaceId = 1
          /\ embeddings = {} /\ runs = {}
          /\ clusters = {} /\ nextClusterId = 1
          /\ assignments = {}
       \/ /\ spaces = {Space1} /\ nextSpaceId = 2
          /\ \/ embeddings = {} /\ runs = {}
             \/ /\ embeddings = StoredEmbeddings
                /\ runs = {[id |-> 1, space_id |-> 1, is_active |-> FALSE,
                            params |-> {}]}
          /\ clusters = {} /\ nextClusterId = 1
          /\ assignments = {}
       \/ /\ spaces = {Space1} /\ nextSpaceId = 2
          /\ embeddings = StoredEmbeddings
          /\ \E p \in RunParams :
                /\ runs = {[id |-> 1, space_id |-> 1, is_active |-> TRUE,
                            params |-> p]}
                /\ \/ assignments = {Assignment1}
                   \/ p = {} /\ assignments = {Assignment1, Assignment2}
          /\ clusters = {Cluster1} /\ nextClusterId = 2

ClusterNext ==
    \E j \in EmbedJobs :
        \/ EmbedStart(j)
        \/ EmbedGetSpace(j)
        \/ EmbedCreateSpace(j)
        \/ EmbedGetEmbedding(j)
        \/ EmbedCallFail(j)
        \/ EmbedCallOk(j)
        \/ EmbedGetRun(j)
        \/ EmbedKnn(j)
        \/ EmbedScan(j)
        \/ EmbedCreateCluster(j)
        \/ EmbedAssign(j)
        \/ EmbedTrigger(j)

SpecCluster == ClusterInit /\ [][ClusterNext]_vars

\* The administrative operation outside the pipeline that makes another run
\* of a space the active one, atomically.
AdminSwitchRun ==
    /\ \E run \in {r \in runs : ~r.is_active} :
          runs' = {[r EXCEPT !.is_active = (r.id = run.id)] :
                      r \in {x \in runs : x.space_id = run.space_id}}
                  \cup {x \in runs : x.space_id # run.space_id}
    /\ UNCHANGED <<now, ingestVars, detectOnly, restVars, spaces, nextSpaceId,
                   embeddings, clusters, nextClusterId, assignments, summaries,
                   ejob, written>>

\* The databases of ClusterInit, or one with a second run that is not
\* active.
ClusterAdminInit ==
    \/ ClusterInit
    \/ /\ now = KNN_WINDOW
       /\ articles = ClusterArticles
       /\ nextArticleId = 6
       /\ pjob = [j \in IngestJobs |-> IdlePJob]
       /\ delayed = << >>
       /\ summaries = {}
       /\ written = {}
       /\ ejob = [j \in EmbedJobs |-> IdleEJob]
       /\ DetectTablesEmpty
       /\ RestIdle
       /\ spaces = {Space1} /\ nextSpaceId = 2
       /\ embeddings = StoredEmbeddings
       /\ runs = {[id |-> 1, space_id |-> 1, is_active |-> TRUE, params |-> {}],
                  [id |-> 2, space_id |-> 1, is_active |-> FALSE, params |-> {}]}
       /\ clusters = {Cluster1} /\ nextClusterId = 2
       /\ assignments = {Assignment1, Assignment2}

SpecClusterAdmin == ClusterAdminInit /\ [][ClusterNext \/ AdminSwitchRun]_vars

\* A row of trend_metrics of a cluster whose articles are recent and come
\* from one source.
Metric(ts, cluster_id, run_id, doc_count, velocity, acceleration) ==
    [ts |-> ts, cluster_id |-> cluster_id, run_id |-> run_id,
     doc_count |-> doc_count, unique_sources |-> 1, velocity |-> velocity,
     acceleration |-> acceleration, novelty |-> 100]

\* The metrics in the database when the detector jobs run (a cluster belongs
\* to one run, so a cluster has one metric per instant): none; cluster 1
\* anomalous (medium) with an older metric, cluster 2 too small; cluster 1
\* anomalous (high); cluster 1 anomalous by acceleration alone (low) and
\* cluster 2 anomalous (critical) in a metric one hour old; cluster 1 fast
\* but without documents; cluster 1 large enough but not anomalous.
MetricTables ==
    { {},
      {Metric(ONE_HOUR, 1, 1, 10, 10, 3), Metric(ONE_HOUR - 1, 1, 1, 9, 2, 0),
       Metric(ONE_HOUR, 2, 1, 2, 40, 5)},
      {Metric(ONE_HOUR, 1, 1, 20, 15, 0)},
      {Metric(ONE_HOUR, 1, 1, 5, 1, 2), Metric(0, 2, 1, 40, 30, 0 - 2)},
      {Metric(ONE_HOUR, 1, 1, 0, 40, 5)},
      {Metric(ONE_HOUR, 1, 1, 5, 2, 0 - 3)} }

DetectInit ==
    /\ now = ONE_HOUR
    /\ articles = {} /\ nextArticleId = 1
    /\ pjob = [j \in IngestJobs |-> IdlePJob]
    /\ delayed = << >>
    /\ ClusterTablesEmpty
    /\ ejob = [j \in EmbedJobs |-> IdleEJob]
    /\ metrics \in MetricTables
    /\ events = {} /\ nextEventId = 1
    /\ published = {}
    /\ djob = [j \in DetectJobs |-> IdleDJob]
    /\ RestIdle

DetectNext ==
    \E j \in DetectJobs :
        \/ DetectStart(j)
        \/ DetectCluster(j)
        \/ DetectPublish(j)
        \/ DetectCommit(j)

SpecDetect == DetectInit /\ [][DetectNext]_vars

\* The largest velocity and the largest size of an acceleration the detector
\* is run on below.
MaxVelocity == 31
MaxAcceleration == 3

\* The detector jobs on one metric of the current instant, of any velocity,
\* acceleration and size about the thresholds.
AnomalyInit ==
    /\ now = ONE_HOUR + MaxDetectTicks
    /\ articles = {} /\ nextArticleId = 1
    /\ pjob = [j \in IngestJobs |-> IdlePJob]
    /\ delayed = << >>
    /\ ClusterTablesEmpty
    /\ ejob = [j \in EmbedJobs |-> IdleEJob]
    /\ \E velocity \in 0 .. MaxVelocity,
          acceleration \in (0 - MaxAcceleration) .. MaxAcceleration,
          doc_count \in (MIN_DOC_COUNT - 1) .. (MIN_DOC_COUNT + 1) :
          metrics = {Metric(now, 1, 1, doc_count, velocity, acceleration)}
    /\ events = {} /\ nextEventId = 1
    /\ published = {}
    /\ djob = [j \in DetectJobs |-> IdleDJob]
    /\ RestIdle

SpecAnomaly == AnomalyInit /\ [][DetectNext]_vars

\* A stored summary of cluster 1.
Summary(id, version, is_active) ==
    [id |-> id, cluster_id |-> 1, run_id |-> 1, version |-> version,
     sections |-> "sections", is_active |-> is_active]

\* The database when the summary jobs run: cluster 1 holds articles 1 and 2
\* and cluster 2 holds none; cluster 1 has no summary, or one active summary,
\* or two of which the later is active.
SummaryInit ==
    /\ now = KNN_WINDOW
    /\ articles = ClusterArticles
    /\ nextArticleId = 6
    /\ pjob = [j \in IngestJobs |-> IdlePJob]
    /\ delayed = << >>
    /\ spaces = {Space1} /\ nextSpaceId = 2
    /\ embeddings = StoredEmbeddings
    /\ runs = {[id |-> 1, space_id |-> 1, is_active |-> TRUE, params |-> {}]}
    /\ clusters = {Cluster1, [Cluster1 EXCEPT !.id = 2]} /\ nextClusterId = 3
    /\ assignments = {Assignment1, Assignment2}
    /\ written = {}
    /\ ejob = [j \in EmbedJobs |-> IdleEJob]
    /\ DetectTablesEmpty
    /\ sjob = [j \in SummaryJobs |-> IdleSJob]
    /\ NoStream
    /\ TrendJobsIdle /\ BrokerIdle
    /\ \/ summaries = {} /\ nextSummaryId = 1
       \/ summaries = {Summary(1, 1, TRUE)} /\ nextSummaryId = 2
       \/ /\ summaries = {Summary(1, 1, FALSE), Summary(2, 2, TRUE)}
          /\ nextSummaryId = 3

SummaryNext ==
    \E j \in SummaryJobs :
        \/ SummarizeStart(j)
        \/ SummarizeArticles(j)
        \/ SummarizeGenerateFail(j)
        \/ SummarizeGenerateOk(j)
        \/ SummarizeDeactivate(j)
        \/ SummarizeLock(j)
        \/ SummarizeCommit(j)

SpecSummary == SummaryInit /\ [][SummaryNext]_vars

\* No session is open and nothing was published; the tables are empty.
StreamInit ==
    /\ now = 0
    /\ articles = {} /\ nextArticleId = 1
    /\ pjob = [j \in IngestJobs |-> IdlePJob]
    /\ delayed = << >>
    /\ ClusterTablesEmpty
    /\ ejob = [j \in EmbedJobs |-> IdleEJob]
    /\ DetectTablesEmpty
    /\ SummaryJobsIdle
    /\ NoStream
    /\ TrendJobsIdle /\ BrokerIdle

StreamNext ==
    \/ Publish
    \/ \E s \in Sessions :
          \/ RedisSubscribe(s)
          \/ ClientDisconnect(s)
          \/ StreamOpen(s)
          \/ StreamSubscribe(s)
          \/ StreamConnected(s)
          \/ StreamCheck(s)
          \/ StreamGet(s)
          \/ StreamGetFail(s)
          \/ StreamUnsubscribe(s)
          \/ StreamClose(s)

SpecStream == StreamInit /\ [][StreamNext]_vars

TrendNext ==
    \E j \in TrendJobs :
        \/ TrendStart(j)
        \/ TrendDocCount(j)
        \/ TrendUniqueSources(j)
        \/ TrendVelocity(j)
        \/ TrendNovelty(j)
        \/ TrendAcceleration(j)
        \/ TrendFail(j)
        \/ TrendCommit(j)

Assignment3 == [run_id |-> 1, cluster_id |-> 1, article_id |-> 3, similarity |-> 85]

\* The metrics calculate_trends wrote for cluster 1 before and after
\* article 3 joined it.
PipelineMetrics ==
    { [ts |-> KNN_WINDOW - 1, cluster_id |-> 1, run_id |-> 1, doc_count |-> 2,
       unique_sources |-> 1, velocity |-> 0, acceleration |-> 0,
       novelty |-> 50],
      [ts |-> KNN_WINDOW, cluster_id |-> 1, run_id |-> 1, doc_count |-> 3,
       unique_sources |-> 2, velocity |-> 1, acceleration |-> 6,
       novelty |-> 66] }

\* The database when the tasks of the pipeline run: one stored article and
\* nothing else; or a space with an active run and a run that is no longer
\* active, the new cluster 2 and cluster 1, which holds articles 1 and 2,
\* or articles 1, 2 and 3 and then also a summary; metrics were calculated
\* or not.
PipelineInit ==
    /\ now = KNN_WINDOW
    /\ pjob = [j \in IngestJobs |-> IdlePJob]
    /\ delayed = << >>
    /\ ejob = [j \in EmbedJobs |-> IdleEJob]
    /\ written = {}
    /\ events = {} /\ nextEventId = 1
    /\ published = {}
    /\ djob = [j \in DetectJobs |-> IdleDJob]
    /\ sjob = [j \in SummaryJobs |-> IdleSJob]
    /\ NoStream
    /\ TrendJobsIdle /\ BrokerIdle
    /\ \/ /\ articles = {StoredBefore} /\ nextArticleId = 2
          /\ spaces = {} /\ nextSpaceId = 1
          /\ embeddings = {} /\ runs = {}
          /\ clusters = {} /\ nextClusterId = 1
          /\ assignments = {}
          /\ summaries = {} /\ nextSummaryId = 1
          /\ metrics = {}
       \/ /\ articles = ClusterArticles /\ nextArticleId = 6
          /\ spaces = {Space1} /\ nextSpaceId = 2
          /\ clusters = {[Cluster1 EXCEPT !.created_at = KNN_WINDOW - ONE_HOUR],
                         [Cluster1 EXCEPT !.id = 2, !.created_at = KNN_WINDOW]}
          /\ nextClusterId = 3
          /\ \E p \in {{}, {<<"threshold", 90>>}} :
                /\ runs = {[id |-> 1, space_id |-> 1, is_active |-> TRUE,
                            params |-> p],
                           [id |-> 2, space_id |-> 1, is_active |-> FALSE,
                            params |-> {}]}
                /\ \/ /\ embeddings = StoredEmbeddings
                      /\ assignments = {Assignment1, Assignment2}
                      /\ summaries = {} /\ nextSummaryId = 1
                      /\ metrics \in {{}, {m \in PipelineMetrics : m.doc_count = 2}}
                   \/ /\ p = {}
                      /\ embeddings = StoredEmbeddings \cup
                            {[space_id |-> 1, article_id |-> 3, embedding |-> 3]}
                      /\ assignments = {Assignment1, Assignment2, Assignment3}
                      /\ summaries = {Summary(1, 1, TRUE)} /\ nextSummaryId = 2
                      /\ metrics \in {{}, PipelineMetrics}

\* The metrics stored when the calculate_trends jobs run alone: none; the
\* two of PipelineMetrics; one of more than two hours ago; one of exactly
\* two hours ago.
TrendMetricTables ==
    { {}, PipelineMetrics,
      {Metric(KNN_WINDOW - TWO_HOURS - 1, 1, 1, 2, 5, 0)},
      {Metric(KNN_WINDOW - TWO_HOURS, 1, 1, 2, 3, 0)} }

\* The database when calculate_trends runs alone: cluster 1 with articles
\* 1, 2 and 3 and the new cluster 2, in the active run.
TrendInit ==
    /\ now = KNN_WINDOW
    /\ pjob = [j \in IngestJobs |-> IdlePJob]
    /\ delayed = << >>
    /\ ejob = [j \in EmbedJobs |-> IdleEJob]
    /\ written = {}
    /\ events = {} /\ nextEventId = 1
    /\ published = {}
    /\ djob = [j \in DetectJobs |-> IdleDJob]
    /\ RestIdle
    /\ articles = ClusterArticles /\ nextArticleId = 6
    /\ spaces = {Space1} /\ nextSpaceId = 2
    /\ clusters = {[Cluster1 EXCEPT !.created_at = KNN_WINDOW - ONE_HOUR],
                   [Cluster1 EXCEPT !.id = 2, !.created_at = KNN_WINDOW]}
    /\ nextClusterId = 3
    /\ runs = {[id |-> 1, space_id |-> 1, is_active |-> TRUE, params |-> {}]}
    /\ embeddings = StoredEmbeddings \cup
          {[space_id |-> 1, article_id |-> 3, embedding |-> 3]}
    /\ assignments = {Assignment1, Assignment2, Assignment3}
    /\ summaries = {}
    /\ metrics \in TrendMetricTables

SpecTrend == TrendInit /\ [][TrendNext]_vars

\* Beat and one worker over the clusters of TrendInit, whose cluster 1 got
\* its third article since the metric before.
BeatInit ==
    /\ TrendInit
    /\ metrics = PipelineMetrics

BeatNext ==
    \/ \E task \in QueuedTasks :
          \/ BeatTick(task)
          \/ MessageExpires(task)
          \/ WorkerRejects(task)
    \/ ManualDetect
    \/ \E j \in TrendJobs :
          \/ WorkerRunsTrends(j)
          \/ TrendDocCount(j)
          \/ TrendUniqueSources(j)
          \/ TrendVelocity(j)
          \/ TrendNovelty(j)
          \/ TrendAcceleration(j)
          \/ TrendFail(j)
          \/ TrendCommit(j)
    \/ \E j \in DetectJobs :
          \/ WorkerRunsDetect(j)
          \/ DetectCluster(j)
          \/ DetectPublish(j)
          \/ DetectCommit(j)

SpecBeat == BeatInit /\ [][BeatNext]_vars

\* Every task of the pipeline: article processing, embed-and-cluster,
\* summarise, trend metrics, event detection.
PipelineNext ==
    \/ IngestNext
    \/ ClusterNext
    \/ SummaryNext
    \/ TrendNext
    \/ DetectNext

SpecPipeline == PipelineInit /\ [][PipelineNext]_vars

\* The event loop of the server runs every generator that can take a step:
\* each await of a generator returns or raises.
SpecStreamLive ==
    SpecStream /\ \A s \in Sessions : WF_vars(StreamStep(s))


(***************************************************************************)
(* Properties of process_article_url.                                      *)
(***************************************************************************)
\* The number of bit positions in which two 64-bit values differ.
BitsDiffering(x, y) == Cardinality({b \in 0..63 : (b \in x) # (b \in y)})

RowsWithUrl(u) == {a \in articles : a.url = u}

ReachedStore(j) ==
    pjob[j].pc = "done" /\ pjob[j].status \notin {"error", "skipped"}

\* C3: when process_article_url runs several times one after another with the
\* same URL and the first run stores the article, exactly one Article row
\* has that URL and every later run (that fetches and extracts the page)
\* returns status duplicate with the article_id the first run stored.
C3_SequentialReplayIsDuplicate ==
    \A i, j \in IngestJobs :
        ( /\ pjob[i].pc = "done" /\ pjob[i].status = "stored"
          /\ i \in pjob[j].after
          /\ pjob[j].url = pjob[i].url
          /\ ReachedStore(j) )
        => /\ pjob[j].status = "duplicate"
           /\ pjob[j].article_id = pjob[i].article_id
           /\ Cardinality(RowsWithUrl(pjob[i].url)) = 1

C3_Witness ==
    \E i, j \in IngestJobs :
        /\ pjob[i].pc = "done" /\ pjob[i].status = "stored"
        /\ i \in pjob[j].after
        /\ pjob[j].url = pjob[i].url
        /\ pjob[j].pc = "done" /\ pjob[j].status = "duplicate"
        /\ pjob[j].article_id = pjob[i].article_id

NearDuplicatesOf(j) ==
    {a \in articles :
        /\ a.source_id = pjob[j].source_id
        /\ BitsDiffering(a.simhash_64, pjob[j].simhash_value) <= 3}

\* C4: a job whose URL is not stored, and whose SimHash differs in at most 3
\* bits from an article stored for the same source, inserts no row and
\* returns status duplicate with the id of such an article; the scan is
\* entered only from a URL check that found nothing, and a URL check that
\* finds the URL returns the id of the row with that URL.
C4_SimhashDuplicateNotInserted ==
    [][\A j \in IngestJobs :
        /\ (pjob[j].pc = "scan" /\ pjob'[j] # pjob[j] /\ NearDuplicatesOf(j) # {})
            => /\ articles' = articles
               /\ pjob'[j].pc = "done"
               /\ pjob'[j].status = "duplicate"
               /\ pjob'[j].article_id \in {a.id : a \in NearDuplicatesOf(j)}
        /\ (pjob[j].pc = "scan" /\ pjob'[j] # pjob[j] /\ NearDuplicatesOf(j) = {})
            => pjob'[j].pc = "insert"
        /\ (pjob'[j].pc = "scan" /\ pjob[j].pc # "scan")
            => (pjob[j].pc = "check_url" /\ RowsWithUrl(pjob[j].url) = {})
        /\ (pjob[j].pc = "check_url" /\ pjob'[j] # pjob[j]
                /\ RowsWithUrl(pjob[j].url) # {})
            => /\ articles' = articles
               /\ pjob'[j].status = "duplicate"
               /\ pjob'[j].article_id \in {a.id : a \in RowsWithUrl(pjob[j].url)}
      ]_vars

C4_Witness ==
    \E j \in IngestJobs :
        /\ pjob[j].pc = "done" /\ pjob[j].status = "duplicate"
        /\ pjob[j].log = "via simhash"
        /\ RowsWithUrl(pjob[j].url) = {}
        /\ \E a \in articles :
              /\ a.id = pjob[j].article_id
              /\ a.source_id = pjob[j].source_id
              /\ BitsDiffering(a.simhash_64, pjob[j].simhash_value) \in 1..3

\* C5: when two jobs for the same URL both pass the URL check before either
\* commits, exactly one Article row is stored and the job that loses returns
\* status duplicate.  (Job j passed the URL check when it did not return from
\* it; it then found no row with the URL, so job i had not committed.)
C5_RaceLoserReturnsDuplicate ==
    \A i, j \in IngestJobs :
        ( /\ i # j
          /\ pjob[i].pc = "done" /\ pjob[i].status = "stored"
          /\ pjob[j].url = pjob[i].url
          /\ ReachedStore(j)
          /\ pjob[j].log # "same URL"
          /\ 63 \notin pjob[j].simhash_value )
        => /\ Cardinality(RowsWithUrl(pjob[i].url)) = 1
           /\ pjob[j].status = "duplicate"

(***************************************************************************)
(* Properties of embed_and_cluster_article.                                *)
(***************************************************************************)
\* C1: for every run R and article A at most one ArticleCluster row has
\* run_id = R and article_id = A, whatever executions of
\* embed_and_cluster_article (retries, overlapping ones) have run.
C1_OneAssignmentPerRunAndArticle ==
    \A x, y \in assignments :
        (x.run_id = y.run_id /\ x.article_id = y.article_id) => x = y

\* C2: an execution for an article that already had an assignment in the
\* active run when it started creates no Cluster row, writes no
\* ArticleCluster row and does not end with an exception.
C2_ReplayIsNoOp ==
    \A j \in EmbedJobs :
        ejob[j].replay =>
            /\ ejob[j].new_cluster = {}
            /\ ejob[j].status # "raised"
            /\ \A w \in written : w.job # j

RunById(id) == CHOOSE r \in runs : r.id = id

\* The threshold of a run: params.threshold, 0.80 when the key is absent.
RunThreshold(r) ==
    IF \E kv \in r.params : kv[1] = "threshold"
      THEN (CHOOSE kv \in r.params : kv[1] = "threshold")[2]
      ELSE 80

StoredVector(space_id, article_id) ==
    (CHOOSE e \in embeddings :
        e.space_id = space_id /\ e.article_id = article_id).embedding

HasVector(space_id, article_id) ==
    \E e \in embeddings : e.space_id = space_id /\ e.article_id = article_id

\* (a) of C6 for the row x that the job's account w describes
JoinedThroughNeighbour(w, x) ==
    LET n == w.neighbor_id
        space_id == RunById(x.run_id).space_id
    IN  /\ ~w.created
        /\ n # x.article_id
        /\ \E c \in clusters : c.id = x.cluster_id /\ c.run_id = x.run_id
        /\ \E y \in assignments :
              y.run_id = x.run_id /\ y.cluster_id = x.cluster_id /\ y.article_id = n
        /\ HasVector(space_id, n) /\ HasVector(space_id, x.article_id)
        /\ x.similarity =
              CosSim(StoredVector(space_id, n), StoredVector(space_id, x.article_id))
        /\ x.similarity >= RunThreshold(RunById(x.run_id))
        /\ \E a \in articles : a.id = n /\ a.created_at >= w.at - 288

\* (b) of C6
FoundedCluster(w, x) ==
    /\ w.created
    /\ x.similarity = 100
    /\ \A v \in written : v.cluster_id = x.cluster_id /\ v.created => v = w
    /\ \E c \in clusters, a \in articles :
          /\ c.id = x.cluster_id /\ c.run_id = x.run_id
          /\ a.id = x.article_id
          /\ c.window_start = a.created_at
          /\ c.window_end = a.created_at

\* C6: every ArticleCluster row the worker has written either (a) joins an
\* existing cluster through a neighbour assigned to it, whose similarity is
\* at least the run's threshold and is the similarity recorded, and whose
\* article was created no earlier than 48 hours before the job's reading of
\* the clock, or (b) joins a cluster the same job created, with window_start
\* = window_end = article.created_at and similarity 1.0.
C6_AssignmentJoinsOrFounds ==
    \A w \in written :
        \E x \in assignments :
            /\ x.run_id = w.run_id
            /\ x.cluster_id = w.cluster_id
            /\ x.article_id = w.article_id
            /\ (JoinedThroughNeighbour(w, x) \/ FoundedCluster(w, x))

C6_Witness ==
    /\ \E w \in written : ~w.created /\ w.at > 288
    /\ \E w \in written : w.created

NoRunActive(space_id) ==
    ~ \E r \in runs : r.space_id = space_id /\ r.is_active = TRUE

\* C7: when the job's query finds no active ClusterRun for the space, the
\* job commits the article's embedding, creates no Cluster and no
\* ArticleCluster row, submits no summariser job and returns status embedded
\* with no cluster; status embedded is returned in no other way.
C7_NoActiveRunEmbedsOnly ==
    [][\A j \in EmbedJobs :
        /\ (ejob[j].pc = "get_run" /\ ejob'[j] # ejob[j]
                /\ NoRunActive(ejob[j].space_id))
            => /\ ejob'[j].pc = "done"
               /\ ejob'[j].status = "embedded"
               /\ ejob'[j].cluster_id = 0
               /\ \E e \in embeddings' : /\ e.space_id = ejob[j].space_id
                                         /\ e.article_id = ejob[j].article_id
               /\ clusters' = clusters
               /\ assignments' = assignments
               /\ delayed' = delayed
        /\ (ejob'[j].status = "embedded" /\ ejob[j].status # "embedded")
            => (ejob[j].pc = "get_run" /\ NoRunActive(ejob[j].space_id))
      ]_vars

C7_Witness ==
    \E j \in EmbedJobs :
        /\ ejob[j].pc = "done" /\ ejob[j].status = "embedded"
        /\ ejob[j].cluster_id = 0
        /\ \E r \in runs : r.space_id = ejob[j].space_id /\ ~r.is_active
        /\ \E e \in embeddings : /\ e.space_id = ejob[j].space_id
                                 /\ e.article_id = ejob[j].article_id
                                 /\ e \notin StoredEmbeddings

(***************************************************************************)
(* Properties of detect_events.                                            *)
(***************************************************************************)
\* C8: in every reachable state, each message published on the events
\* channel has a committed Event row with the same id, cluster_id, severity
\* and score.
C8_PublishedEventIsPersisted ==
    \A message \in published :
        \E e \in events :
            /\ e.id = message.event_id
            /\ e.cluster_id = message.cluster_id
            /\ e.severity = message.severity
            /\ e.score = message.score

\* C9: in every reachable state, no cluster has two committed Event rows
\* whose detected_at values are less than thirty minutes apart.
C9_EventsThirtyMinutesApart ==
    \A e1, e2 \in events :
        (e1.id # e2.id /\ e1.cluster_id = e2.cluster_id /\ e1.detected_at <= e2.detected_at)
            => e2.detected_at - e1.detected_at >= 3

\* The Event rows that were committed when job b started and whose
\* detected_at lies less than thirty minutes before b's clock reading.
CommittedShortlyBefore(b) ==
    {e \in djob[b].before :
        e.detected_at <= djob[b].timestamp /\ djob[b].timestamp - e.detected_at < 3}

\* The clusters for which job b has flushed an Event row or published a
\* message.
ClustersEmittedBy(b) ==
    {e.cluster_id : e \in {x \in events \cup djob[b].pending : x.id \in djob[b].emitted}}
    \cup {message.cluster_id :
            message \in {x \in published : x.event_id \in djob[b].emitted}}

\* C10: a detector run that starts after an Event of a cluster has been
\* committed, less than thirty minutes after the run that emitted it,
\* persists no Event for that cluster and publishes nothing for it.
C10_RerunWithinCooldownEmitsNothing ==
    \A b \in DetectJobs :
        \A e \in CommittedShortlyBefore(b) :
            e.cluster_id \notin ClustersEmittedBy(b)

\* A run has finished successfully, ten or twenty minutes after the run that
\* committed an Event for a cluster, with the same metrics still showing an
\* anomaly for that cluster, and has emitted nothing.
C10_Witness ==
    \E b \in DetectJobs :
        /\ djob[b].pc = "done"
        /\ djob[b].status = "success"
        /\ djob[b].emitted = {}
        /\ \E e \in CommittedShortlyBefore(b) :
              /\ e.detected_at < djob[b].timestamp
              /\ \E m \in metrics :
                    /\ m.cluster_id = e.cluster_id
                    /\ m.ts >= djob[b].timestamp - 6
                    /\ m.doc_count >= 3 /\ m.velocity >= 3

\* The metrics that are the most recent of their cluster.
MostRecentMetrics ==
    {m \in metrics : \A o \in metrics : o.cluster_id = m.cluster_id => o.ts <= m.ts}

\* The clusters whose most recent metric counts fewer than three documents.
SmallClusters == {m.cluster_id : m \in {x \in MostRecentMetrics : x.doc_count < 3}}

\* C11: detect_events never persists or publishes an Event for a cluster
\* whose most recent metric has doc_count < 3, whatever its velocity and
\* acceleration: no committed or flushed Event row and no published message
\* names such a cluster.
C11_SmallClusterNeverEmits ==
    /\ \A e \in events : e.cluster_id \notin SmallClusters
    /\ \A j \in DetectJobs : \A e \in djob[j].pending : e.cluster_id \notin SmallClusters
    /\ \A message \in published : message.cluster_id \notin SmallClusters

\* A run has gone through a fast cluster of fewer than three documents, whose
\* metric is of the last hour, and has finished without an Event for it.
C11_Witness ==
    \E j \in DetectJobs :
        /\ djob[j].pc = "done"
        /\ djob[j].status = "success"
        /\ \E m \in MostRecentMetrics :
              /\ m.doc_count < 3
              /\ m.velocity >= 30
              /\ m.ts >= djob[j].timestamp - 6
              /\ \A e \in events : e.cluster_id # m.cluster_id


(***************************************************************************)
(* Properties of summarize_cluster.                                        *)
(***************************************************************************)
ActiveSummaries(cluster_id) ==
    {sm \in summaries : sm.cluster_id = cluster_id /\ sm.is_active = TRUE}

\* C12: in every reachable state, overlapping summary jobs of one cluster
\* included, each cluster has at most one summary with is_active = true.
C12_OneActiveSummaryPerCluster ==
    \A c \in clusters : Cardinality(ActiveSummaries(c.id)) <= 1

\* Two jobs of cluster 1 overlapped: one committed its summary, the other
\* lost the insert; the cluster has several summaries and one is active.
C12_Witness ==
    \E j, k \in SummaryJobs :
        /\ sjob[j].pc = "done" /\ sjob[j].cluster_id = 1
        /\ sjob[j].status = "success"
        /\ sjob[k].pc = "done" /\ sjob[k].cluster_id = 1
        /\ sjob[k].status = "raised"
        /\ Cardinality({sm \in summaries : sm.cluster_id = 1}) >= 2
        /\ Cardinality(ActiveSummaries(1)) = 1

\* C13: the step in which the summariser call of a job fails changes no row
\* of cluster_summaries and takes no id, and the job holds no row it changed:
\* no summary is added and the active summary stays active.
C13_SummariserFailureWritesNothing ==
    [][\A j \in SummaryJobs :
          (sjob[j].pc = "generate" /\ sjob'[j].pc = "done"
              /\ sjob'[j].status = "error")
          => /\ summaries' = summaries
             /\ nextSummaryId' = nextSummaryId
             /\ sjob[j].locked = {} /\ sjob[j].targets = {}
             /\ sjob'[j].locked = {} /\ sjob'[j].summary_id = 0]_vars

\* The summariser failed for a job of cluster 1, whose summary of before the
\* job is still the active one.
C13_Witness ==
    \E j \in SummaryJobs :
        /\ sjob[j].pc = "done" /\ sjob[j].message = "summariser"
        /\ sjob[j].cluster_id = 1
        /\ \E sm \in summaries :
              sm.cluster_id = 1 /\ sm.id < 3 /\ sm.is_active = TRUE


(***************************************************************************)
(* Properties of the event stream.                                         *)
(***************************************************************************)
IsPrefix(a, b) == Len(a) <= Len(b) /\ SubSeq(b, 1, Len(a)) = a

\* The data of the new_event events session s has yielded, in order.
NewEventData(s) ==
    LET sel == SelectSeq(stream[s].forwarded, LAMBDA e : e.event = "new_event")
    IN  [i \in 1..Len(sel) |-> sel[i].data]

\* The messages sent to the connection of session s and not yet read.
UnreadData(s) ==
    LET sel == SelectSeq(inbox[s], LAMBDA m : m.type = "message")
    IN  [i \in 1..Len(sel) |-> sel[i].data[2]]

\* The payloads published from the moment the server subscribed session s
\* until its subscription ended.
PublishedWhileSubscribed(s) ==
    IF stream[s].sub_at < 0 THEN << >>
    ELSE SubSeq(channelLog, stream[s].sub_at + 1,
                IF stream[s].unsub_at < 0 THEN Len(channelLog)
                ELSE stream[s].unsub_at)

\* C14: the new_event events of a session come after its connected event and
\* carry, unchanged, in publication order and each once, payloads published
\* while it was subscribed, none of them published before; while it is
\* subscribed, every such payload is either forwarded or waiting to be read.
C14_ForwardsPublishedInOrderOnce ==
    \A s \in Sessions :
        /\ IsPrefix(NewEventData(s), PublishedWhileSubscribed(s))
        /\ \A i \in DOMAIN stream[s].forwarded :
              stream[s].forwarded[i].event = "new_event"
              => i > 1 /\ stream[s].forwarded[1].event = "connected"
        /\ subscribed[s] =>
              NewEventData(s) \o UnreadData(s) = PublishedWhileSubscribed(s)

\* A session subscribed after the first publication has forwarded the two
\* later payloads and not the first.
C14_Witness ==
    \E s \in Sessions :
        /\ stream[s].sub_at >= 1
        /\ Len(NewEventData(s)) >= 2
        /\ NewEventData(s)[1] = EventJson(stream[s].sub_at)
        /\ NewEventData(s)[2] = EventJson(stream[s].sub_at + 1)

\* The client of the session is gone, or the session has yielded an error.
Ending(s) ==
    /\ stream[s].pc # "idle"
    /\ \/ ~stream[s].connected
       \/ \E i \in DOMAIN stream[s].forwarded :
             stream[s].forwarded[i].event = "error"

\* The generator has ended, the server holds no subscription of the session
\* and its connection is not open.
Ended(s) ==
    /\ stream[s].pc = "ended"
    /\ ~subscribed[s]
    /\ stream[s].conn # "open"

\* C15: a session whose client disconnected or that hit an internal error
\* eventually has no subscription and no open connection and has ended; the
\* steps in which it does so change nothing of another session: its
\* subscription, its unread messages and its position stay.
C15_EndingSessionCleansUp ==
    /\ \A s \in Sessions : Ending(s) ~> Ended(s)
    /\ [][\A s \in Sessions :
             (stream[s].pc \in {"unsubscribe", "close"}
                 /\ stream'[s].pc # stream[s].pc)
             => \A t \in Sessions \ {s} :
                   /\ subscribed'[t] = subscribed[t]
                   /\ inbox'[t] = inbox[t]
                   /\ stream'[t] = stream[t]]_vars

\* A session ended after its client disconnected, and another session
\* forwarded a payload published after that.
C15_Witness ==
    \E s, t \in Sessions :
        /\ s # t
        /\ Ended(s) /\ ~stream[s].connected /\ stream[s].unsub_at >= 0
        /\ \E i \in DOMAIN NewEventData(t) :
              NewEventData(t)[i] > EventJson(stream[s].unsub_at)


\* C17: every row embed_and_cluster_article adds to article_clusters names,
\* when it is committed, a run that is active for the space of the article,
\* also when the active run is switched while the job runs, and a cluster of
\* that run.
C17_AssignmentCommittedUnderActiveRun ==
    [][\A row \in assignments' \ assignments :
          /\ \E r \in runs', e \in embeddings' :
                /\ r.id = row.run_id /\ r.is_active
                /\ e.article_id = row.article_id /\ e.space_id = r.space_id
          /\ \E c \in clusters' :
                c.id = row.cluster_id /\ c.run_id = row.run_id]_vars

EmbeddingsOf(space_id, article_id) ==
    {e \in embeddings : e.space_id = space_id /\ e.article_id = article_id}

\* C18: there is at most one embedding row per space and article, whatever
\* jobs ran; a job that finds the row of its article does not call the
\* embedder; and a job whose insert of the row meets the key of an
\* overlapping job does not fail.
C18_EmbeddingOnceAndConflictBenign ==
    /\ [](\A e \in embeddings :
             Cardinality(EmbeddingsOf(e.space_id, e.article_id)) = 1)
    /\ [][\A j \in EmbedJobs :
             /\ (ejob[j].pc = "get_embedding"
                    /\ EmbeddingsOf(ejob[j].space_id, ejob[j].article_id) # {})
                => ejob'[j].pc # "embed"
             /\ (ejob[j].pc = "embed" /\ ejob'[j].received_dims # 0
                    /\ EmbeddingsOf(ejob[j].space_id, ejob[j].article_id) # {})
                => ~(ejob'[j].status = "raised"
                       /\ ejob'[j].reason = "IntegrityError")]_vars

\* C19: when the embedder returns a vector of another dimension than the
\* registry's, the job sets the registry's dims to it, keeps the vector for
\* its commit and goes on to the clustering.
C19_DimensionMismatchIsAdopted ==
    [][\A j \in EmbedJobs :
          (ejob[j].pc = "embed" /\ ejob'[j].received_dims # 0
              /\ ejob'[j].received_dims # ejob[j].space_dims)
          => /\ ejob'[j].pc = "get_run"
             /\ ejob'[j].space_dims = ejob'[j].received_dims
             /\ \E e \in ejob'[j].new_embedding :
                   e.article_id = ejob[j].article_id]_vars

\* C20: jobs that find no default space and create it leave one registry
\* row, and the job that loses the insert goes on with the row of the other.
C20_SpaceCreationRaceIsBenign ==
    /\ [](Cardinality({sp \in spaces : sp.name = DEFAULT_EMBEDDING_SPACE}) <= 1)
    /\ [][\A j \in EmbedJobs :
             ejob[j].pc = "create_space" /\ ejob'[j].pc # "create_space"
             => /\ ejob'[j].pc = "get_embedding"
                /\ \/ ejob'[j].space_id \in {sp.id : sp \in spaces}
                   \/ ejob'[j].new_space # {}]_vars

(***************************************************************************)
(* Properties of the pipeline as a whole.                                  *)
(***************************************************************************)
ActiveRunsOfSpace(space_id) ==
    {r \in runs : r.space_id = space_id /\ r.is_active = TRUE}

\* C16: no step of article processing, embed-and-cluster, summarise, trend
\* metrics or event detection changes the table of cluster runs (no run is
\* created, no is_active changed), and every space keeps at most one active
\* run.
C16_PipelineLeavesRunsAlone ==
    /\ [][runs' = runs]_vars
    /\ [](\A sp \in spaces : Cardinality(ActiveRunsOfSpace(sp.id)) <= 1)

\* An embed-and-cluster job has assigned an article and a trend job has
\* stored metrics, in a space with an active run and a run no longer active.
C16_Witness ==
    /\ \E j \in EmbedJobs :
          ejob[j].pc = "done" /\ ejob[j].status = "embedded_and_clustered"
    /\ \E j \in TrendJobs :
          /\ tjob[j].pc = "done" /\ tjob[j].status = "success"
          /\ tjob[j].metrics_calculated >= 1
    /\ \E r \in runs : r.is_active
    /\ \E r \in runs : ~r.is_active


(***************************************************************************)
(* Fan-out of process_article_url.                                         *)
(***************************************************************************)
Submitted(task, article_id) ==
    {i \in DOMAIN delayed : delayed[i].task = task
                              /\ delayed[i].article_id = article_id}

StoredJobs == {j \in IngestJobs : pjob[j].pc = "done" /\ pjob[j].status = "stored"}

Qualifies(job, nb) ==
    /\ nb.similarity >= job.threshold
    /\ \E x \in assignments : x.run_id = job.run_id /\ x.article_id = nb.article_id

\* C24: the scan takes the neighbours in the order of the kNN result; at a
\* neighbour with similarity >= threshold and an assignment in the run it
\* stops and takes that neighbour's cluster, creating no cluster; at any
\* other neighbour it goes on to the next; past the last neighbour it
\* creates one new cluster; and the commit of the assignment adds that one
\* cluster, or none after a hit.
C24_FirstFitScan ==
    [][\A j \in EmbedJobs :
          LET job == ejob[j]
              after == ejob'[j]
          IN  /\ (job.pc = "scan" /\ after # job) =>
                    IF job.idx > Len(job.neighbors)
                      THEN after.pc = "create_cluster"
                    ELSE IF Qualifies(job, job.neighbors[job.idx])
                      THEN /\ after.pc = "assign"
                           /\ \E x \in assignments :
                                 /\ x.run_id = job.run_id
                                 /\ x.article_id = job.neighbors[job.idx].article_id
                                 /\ x.cluster_id = after.assigned_cluster_id
                           /\ after.max_similarity = job.neighbors[job.idx].similarity
                           /\ after.new_cluster = {}
                           /\ nextClusterId' = nextClusterId
                    ELSE after.pc = "scan" /\ after.idx = job.idx + 1
              /\ (job.pc = "create_cluster" /\ after # job) =>
                    /\ after.pc = "assign"
                    /\ Cardinality(after.new_cluster) = 1
                    /\ \A c \in after.new_cluster :
                          c.id = after.assigned_cluster_id /\ c.run_id = job.run_id
              /\ (job.pc = "assign" /\ after.pc = "trigger") =>
                    /\ clusters' = clusters \cup job.new_cluster
                    /\ \E x \in assignments' \ assignments :
                          /\ x.article_id = job.article_id
                          /\ x.cluster_id = job.assigned_cluster_id]_vars

(***************************************************************************)
(* The anomaly rule.                                                       *)
(***************************************************************************)
SeverityOfVelocity(velocity) ==
    IF velocity >= 30 THEN "critical"
    ELSE IF velocity >= 15 THEN "high"
    ELSE IF velocity >= 7 THEN "medium" ELSE "low"

AnomalousMetric(m) ==
    m.doc_count >= 3 /\ (m.velocity >= 3 \/ m.acceleration >= 2)

InsertedSummaries == {sm \in summaries' : \A old \in summaries : old.id # sm.id}

\* Job j ends with success in the step.
SummarizeSucceeds(j) ==
    sjob[j].pc # "done" /\ sjob'[j].pc = "done" /\ sjob'[j].status = "success"

\* C26: the step in which a summarize_cluster job succeeds inserts one row
\* for its cluster, active, with version 1 when the cluster had no summary
\* and one more than its highest version otherwise, and leaves every other
\* summary of the cluster inactive and otherwise as it was; no other step
\* changes the table; so the versions of a cluster are distinct and grow in
\* the order of the commits.
C26_NextVersionAndSwap ==
    [][/\ \A j \in SummaryJobs :
            SummarizeSucceeds(j) =>
               \E new \in InsertedSummaries :
                  /\ InsertedSummaries = {new}
                  /\ new.cluster_id = sjob[j].cluster_id
                  /\ new.id = sjob'[j].summary_id
                  /\ new.version = sjob'[j].version
                  /\ new.is_active
                  /\ \A old \in summaries :
                        old.cluster_id = new.cluster_id => old.version < new.version
                  /\ \/ new.version = 1
                     \/ \E old \in summaries : /\ old.cluster_id = new.cluster_id
                                               /\ old.version = new.version - 1
                  /\ summaries' \ {new} =
                        {[old EXCEPT !.is_active =
                                old.is_active /\ old.cluster_id # new.cluster_id] :
                            old \in summaries}
       /\ summaries' # summaries => \E j \in SummaryJobs : SummarizeSucceeds(j)]_vars

\* A job has committed version 2 of a cluster after version 1, and it is the
\* active one.
C26_Witness ==
    /\ \E a, b \in summaries :
          /\ a.cluster_id = b.cluster_id
          /\ a.version = 1 /\ b.version = 2 /\ a.id < b.id
          /\ ~a.is_active /\ b.is_active
    /\ \E j \in SummaryJobs : sjob[j].pc = "done" /\ sjob[j].status = "success"
                              /\ sjob[j].version = 2

(***************************************************************************)
(* The summariser trigger of embed_and_cluster_article.                    *)
(***************************************************************************)
SummarizeRequest(cluster_id) == [task |-> "summarize_cluster", cluster_id |-> cluster_id]

\* The cluster has at least three members and no active summary.
DueForSummary(cluster_id) ==
    /\ Cardinality({x.article_id : x \in {y \in assignments : y.cluster_id = cluster_id}}) >= 3
    /\ \A sm \in summaries : sm.cluster_id = cluster_id => ~sm.is_active

\* C27: the step of embed_and_cluster_article after the commit of its
\* assignment submits one summarize_cluster job for the assigned cluster
\* when the cluster has at least 3 members and no active summary, and
\* nothing otherwise; no other step of an embed_and_cluster_article job
\* submits anything.
C27_SummaryTriggeredWhenDue ==
    [][\A j \in EmbedJobs :
          ejob'[j] # ejob[j] =>
             IF ejob[j].pc = "trigger" /\ DueForSummary(ejob[j].assigned_cluster_id)
               THEN delayed' = Append(delayed, SummarizeRequest(ejob[j].assigned_cluster_id))
               ELSE delayed' = delayed]_vars

\* A job has joined its article to a cluster that then had three members
\* and no active summary, and the request is submitted.
C27_Witness ==
    \E j \in EmbedJobs :
        /\ ejob[j].pc = "done" /\ ejob[j].status = "embedded_and_clustered"
        /\ \E i \in DOMAIN delayed : delayed[i] = SummarizeRequest(ejob[j].cluster_id)
        /\ \E k \in EmbedJobs \ {j} :
              /\ ejob[k].pc = "done" /\ ejob[k].status = "embedded_and_clustered"
              /\ Len(delayed) = 1

(***************************************************************************)
(* The size of a summarised cluster.                                       *)
(***************************************************************************)
\* The articles attached to a cluster.
AttachedArticles(cluster_id) ==
    {x.article_id : x \in {y \in assignments : y.cluster_id = cluster_id}}

\* C28: every stored ClusterSummary is of a cluster with at least 3 attached
\* articles, whoever submitted the summarize_cluster job that stored it.
C28_SummaryOnlyForThreeArticles ==
    \A sm \in summaries : Cardinality(AttachedArticles(sm.cluster_id)) >= 3

(***************************************************************************)
(* The rows a calculate_trends run appends.                                *)
(***************************************************************************)
\* Job j of calculate_trends ends in the step.
TrendRunEnds(j) == tjob[j].pc # "done" /\ tjob'[j].pc = "done"

\* The clusters of active runs created in the 24 hours before timestamp.
ClustersToMeasure(timestamp) ==
    {c \in clusters :
        /\ \E r \in runs : r.id = c.run_id /\ r.is_active
        /\ c.created_at >= timestamp - 144}

\* C29: a calculate_trends run takes the clusters of active runs created in
\* the 24 hours before its start; when it ends it has appended one row for
\* each of them, with ts its start time, and no other row; no step changes
\* or removes a row of trend_metrics.
C29_OneRowPerClusterPerRun ==
    [][/\ metrics \subseteq metrics'
       /\ \A j \in TrendJobs :
             /\ (tjob[j].pc = "idle" /\ tjob'[j].pc # "idle") =>
                   /\ tjob'[j].pc = "done" <=> ClustersToMeasure(tjob'[j].timestamp) = {}
                   /\ tjob'[j].pc # "done" =>
                         tjob'[j].selected = ClustersToMeasure(tjob'[j].timestamp)
             /\ (tjob[j].pc # "idle" /\ TrendRunEnds(j)) =>
                   /\ \A c \in tjob[j].selected :
                         Cardinality({m \in metrics' \ metrics :
                                         /\ m.cluster_id = c.id
                                         /\ m.run_id = c.run_id
                                         /\ m.ts = tjob[j].timestamp}) = 1
                   /\ Cardinality(metrics' \ metrics) = Cardinality(tjob[j].selected)
       /\ metrics' # metrics => \E j \in TrendJobs : TrendRunEnds(j)]_vars

(***************************************************************************)
(* The acceleration of a metric.                                           *)
(***************************************************************************)
\* The stored metrics of the cluster and run of metric m from the two hours
\* before it, m's own instant left out.
PreviousMetrics(m) ==
    {p \in metrics : /\ p.cluster_id = m.cluster_id /\ p.run_id = m.run_id
                     /\ p.ts < m.ts /\ p.ts >= m.ts - 12}

\* C30: the acceleration of the metric a calculate_trends run computes is 0
\* when no metric of its cluster and run is stored from the two hours before
\* the run's instant, and otherwise the difference between its velocity and
\* the velocity of the latest of them, divided by the hours between the two
\* (an hour is six units of time); the run stores the metric as computed.
C30_AccelerationFromPreviousMetric ==
    [][\A j \in TrendJobs :
          /\ (tjob[j].pc = "acceleration" /\ tjob'[j].added # {}) =>
                \A m \in tjob'[j].added :
                   /\ m.ts = tjob[j].timestamp /\ m.velocity = tjob[j].velocity
                   /\ IF PreviousMetrics(m) = {}
                        THEN m.acceleration = 0
                        ELSE \E p \in PreviousMetrics(m) :
                                /\ \A o \in PreviousMetrics(m) : o.ts <= p.ts
                                /\ m.acceleration * (m.ts - p.ts)
                                      = 6 * (m.velocity - p.velocity)
          /\ (tjob[j].pc = "commit" /\ tjob'[j].pc = "done") =>
                metrics' \ metrics \subseteq tjob[j].flushed \cup tjob[j].added]_vars

\* Stored: a metric with acceleration 0 whose cluster has a metric from more
\* than two hours before it with another velocity.
C30_Witness ==
    \E m, old \in metrics :
          /\ old.cluster_id = m.cluster_id /\ old.run_id = m.run_id
          /\ old.ts < m.ts - 12 /\ old.velocity # m.velocity
          /\ m.acceleration = 0 /\ m.ts >= KNN_WINDOW


\* The fetch jobs ingest_all_sources is to submit, one per Source, in the
\* order given.
FetchJobs(order) ==
    [i \in 1 .. Len(order) |-> [task |-> "ingest_source", source_id |-> order[i]]]

SourceOrders ==
    {order \in [1 .. Cardinality(Sources) -> Sources] :
        \A s \in Sources : \E i \in DOMAIN order : order[i] = s}

\* C22: whenever the worker takes a message of the periodic task
\* tasks.ingest_all_sources off the queue (the message of an ingest tick
\* that did not expire), the job runs and submits exactly one ingest_source
\* job for each Source.
C22_IngestTickSubmitsOnePerSource ==
    [][(/\ queue'["tasks.ingest_all_sources"] < queue["tasks.ingest_all_sources"]
        /\ handled'.outcome # "expired")
          => /\ handled'.outcome = "received"
             /\ \E order \in SourceOrders : delayed' = delayed \o FetchJobs(order)]_vars

DetectorRuns == Started(djob)

\* The beat and the worker under the scheduling Celery gives: beat keeps
\* sending each entry of its schedule, the worker keeps consuming messages
\* and every started job keeps running.  Nothing makes an operator submit
\* detect_events.
SpecBeatLive ==
    /\ SpecBeat
    /\ \A task \in beat_schedule : WF_vars(BeatTick(task))
    /\ \A task \in QueuedTasks : WF_vars(WorkerRejects(task))
    /\ WF_vars(\E j \in TrendJobs :
                  \/ WorkerRunsTrends(j)
                  \/ TrendDocCount(j)
                  \/ TrendUniqueSources(j)
                  \/ TrendVelocity(j)
                  \/ TrendNovelty(j)
                  \/ TrendAcceleration(j)
                  \/ TrendFail(j)
                  \/ TrendCommit(j))
    /\ WF_vars(\E j \in DetectJobs :
                  \/ WorkerRunsDetect(j)
                  \/ DetectCluster(j)
                  \/ DetectPublish(j)
                  \/ DetectCommit(j))

\* C21: a run of calculate_trends that completes while no detector has run
\* yet is eventually followed by a run of detect_events, or at least by a
\* message that submits one: the tick or a schedule of the detector's own
\* sends it, so that no operator has to.
C21_TrendTickFollowedByDetector ==
    \A j \in TrendJobs :
        (tjob[j].pc = "done" /\ DetectorRuns = 0)
            ~> (DetectorRuns > 0 \/ queue["tasks.detect_events"] > 0)


\* Cluster 1 of articles 1 and 2, both stored half an hour ago, when the
\* embed-and-cluster job of article 3 and calculate_trends run.
RecentArticles ==
    {[a EXCEPT !.created_at = IF a.id \in {1, 2} THEN KNN_WINDOW - THIRTY_MINUTES
                               ELSE @] : a \in ClusterArticles}

RecentClusterInit ==
    /\ now = KNN_WINDOW
    /\ pjob = [j \in IngestJobs |-> IdlePJob]
    /\ delayed = << >>
    /\ ejob = [j \in EmbedJobs |-> IdleEJob]
    /\ written = {}
    /\ events = {} /\ nextEventId = 1
    /\ published = {}
    /\ djob = [j \in DetectJobs |-> IdleDJob]
    /\ sjob = [j \in SummaryJobs |-> IdleSJob]
    /\ NoStream
    /\ TrendJobsIdle /\ BrokerIdle
    /\ articles = RecentArticles /\ nextArticleId = 6
    /\ spaces = {Space1} /\ nextSpaceId = 2
    /\ clusters = {[Cluster1 EXCEPT !.created_at = KNN_WINDOW - THIRTY_MINUTES]}
    /\ nextClusterId = 2
    /\ runs = {[id |-> 1, space_id |-> 1, is_active |-> TRUE, params |-> {}]}
    /\ embeddings = StoredEmbeddings
    /\ assignments = {Assignment1, Assignment2}
    /\ summaries = {} /\ nextSummaryId = 1
    /\ metrics = {}

\* The pipeline on the databases of PipelineInit and on the recent cluster.
SpecRecent == (PipelineInit \/ RecentClusterInit) /\ [][PipelineNext]_vars

\* C31: every TrendMetric row calculate_trends commits has novelty 0 when
\* its doc_count is 0 and otherwise the share of doc_count that the articles
\* of the last six hours make up; so velocity <= doc_count, unique_sources
\* <= doc_count and novelty lies between 0 and 1 (100 hundredths).
C31_NoveltyIsAShareOfDocCount ==
    [][\A m \in metrics' \ metrics :
        /\ m.doc_count = 0 => m.novelty = 0
        /\ m.doc_count > 0 =>
              \E recent_count \in m.velocity .. m.doc_count :
                  m.novelty = Novelty(recent_count, m.doc_count)
        /\ m.velocity <= m.doc_count
        /\ m.unique_sources <= m.doc_count
        /\ 0 <= m.novelty /\ m.novelty <= 100]_vars


(***************************************************************************)
(* Failures of process_article_url before the database.                    *)
(***************************************************************************)
FailedFetch(job) == job.pc = "done" /\ <<job.status, job.reason>> \in FetchFailures

\* C32: a process_article_url job that ends with a fetch timeout, an HTTP
\* error, an extraction failure, a malformed payload or empty text has only
\* fetched: neither its start nor its end inserts or changes an Article row,
\* takes an id from the sequence or submits a follow-up job.
C32_FailedFetchChangesNothing ==
    [][\A j \in IngestJobs :
          /\ (FailedFetch(pjob'[j]) /\ pjob[j].pc # "done")
                => /\ pjob[j].pc = "fetch"
                   /\ pjob'[j].article_id = 0
          /\ (pjob'[j] # pjob[j] /\ (pjob'[j].pc = "fetch" \/ FailedFetch(pjob'[j])))
                => /\ articles' = articles
                   /\ nextArticleId' = nextArticleId
                   /\ delayed' = delayed]_vars

\* A job has failed in its fetch after another job stored an article and
\* submitted its follow-up jobs.
C32_Witness ==
    \E i, j \in IngestJobs :
        /\ FailedFetch(pjob[j])
        /\ pjob[i].pc = "done" /\ pjob[i].status = "stored"
        /\ i \in pjob[j].after
        /\ Len(delayed) = 2


(***************************************************************************)
(* Failure of the embedder.                                                *)
(***************************************************************************)
EmbedFailed(job) ==
    job.pc = "done" /\ job.status = "error" /\ job.reason = "embedding"

\* C33: an embed_and_cluster_article job ends with status error and reason
\* embedding only out of the call of the embedder, and neither that return
\* nor any step the job took before it changes the committed spaces,
\* embeddings, runs, clusters or assignments; the job keeps nothing flushed,
\* so a retry meets the tables the first attempt met.
C33_EmbedderFailureCommitsNothing ==
    [][\A j \in EmbedJobs :
          /\ (EmbedFailed(ejob'[j]) /\ ejob[j].pc # "done")
                => /\ ejob[j].pc = "embed"
                   /\ ejob'[j].new_space = {}
                   /\ ejob'[j].new_embedding = {}
                   /\ ejob'[j].new_cluster = {}
          /\ ( /\ ejob'[j] # ejob[j]
               /\ \/ ejob'[j].pc \in {"get_space", "create_space", "get_embedding", "embed"}
                  \/ EmbedFailed(ejob'[j]) )
                => /\ spaces' = spaces
                   /\ embeddings' = embeddings
                   /\ runs' = runs
                   /\ clusters' = clusters
                   /\ assignments' = assignments
                   /\ summaries' = summaries]_vars

\* The embedder has failed in a job that had created the embedding space:
\* the space is not stored.
C33_Witness ==
    \E j \in EmbedJobs :
        /\ EmbedFailed(ejob[j])
        /\ ejob[j].space_id # 0
        /\ \A sp \in spaces : sp.id # ejob[j].space_id


(***************************************************************************)
(* Failures inside the loops of the batch jobs.                            *)
(***************************************************************************)
DetectRunEnds(j) == djob[j].pc # "done" /\ djob'[j].pc = "done"

\* C34: a calculate_trends run that returns success has committed the
\* TrendMetric row of every cluster whose pass went through (as many rows as
\* it counted), and a detect_events run that returns success has committed
\* every Event row it inserted, whatever failed in the passes of the other
\* clusters of the run.
C34_FailureInOnePassSparesTheOthers ==
    [][/\ \A j \in TrendJobs :
             (TrendRunEnds(j) /\ tjob'[j].status = "success")
                => Cardinality(metrics' \ metrics) = tjob'[j].metrics_calculated
       /\ \A j \in DetectJobs :
             (DetectRunEnds(j) /\ djob'[j].status = "success")
                => {e.id : e \in events' \ events} = djob'[j].emitted]_vars


(***************************************************************************)
(* Near-duplicates within a source.                                        *)
(***************************************************************************)
\* The jobs of source s that have started ran one after another.
OneAtATime(s) ==
    \A i, j \in IngestJobs :
        (i # j /\ pjob[i].source_id = s /\ pjob[j].source_id = s)
            => (i \in pjob[j].after \/ j \in pjob[i].after)

\* C35: when the process_article_url jobs of a source ran one at a time, any
\* two Article rows stored for the source have SimHash values that differ in
\* more than 3 bits.
C35_SequentialJobsKeepSimhashesApart ==
    \A s \in Sources :
        OneAtATime(s) =>
            \A a, b \in articles :
                (a # b /\ a.source_id = s /\ b.source_id = s)
                    => BitsDiffering(a.simhash_64, b.simhash_64) > 3

\* Two jobs of one source, one after the other, have each stored a row.
C35_Witness ==
    \E i, j \in IngestJobs :
        /\ i \in pjob[j].after
        /\ pjob[i].source_id = pjob[j].source_id
        /\ pjob[i].status = "stored" /\ pjob[j].status = "stored"
        /\ pjob[i].article_id # pjob[j].article_id


(***************************************************************************)
(* Embedding and assignment in one transaction.                            *)
(***************************************************************************)
EmbedJobFails(j) ==
    /\ ejob[j].pc # "done" /\ ejob'[j].pc = "done"
    /\ ejob'[j].status \in {"error", "raised"}

\* C36: every assignment the worker commits has an ArticleEmbedding of its
\* article in the space of its run, and no embedding is removed; a step that commits a new embedding
\* commits the assignment of the article with it, unless the space has no
\* active run and the job returns embedded; and a job that fails commits
\* neither an embedding nor an assignment.
C36_AssignmentComesWithEmbedding ==
    [][/\ embeddings \subseteq embeddings'
       /\ \A w \in written' \ written :
             \E e \in embeddings', r \in runs' :
                 /\ r.id = w.run_id
                 /\ e.space_id = r.space_id /\ e.article_id = w.article_id
       /\ \A e \in embeddings' \ embeddings :
             \/ \E x \in assignments' \ assignments : x.article_id = e.article_id
             \/ \E j \in EmbedJobs :
                   /\ ejob[j].pc = "get_run"
                   /\ ejob'[j].pc = "done" /\ ejob'[j].status = "embedded"
                   /\ ejob'[j].article_id = e.article_id
       /\ \A j \in EmbedJobs :
             EmbedJobFails(j) => /\ embeddings' = embeddings
                                 /\ assignments' = assignments
                                 /\ clusters' = clusters]_vars

\* A job committed the assignment of an article together with its new
\* embedding, and another job, which had flushed the embedding of its
\* article, failed in the scan and left no embedding.
C36_Witness ==
    /\ written # {}
    /\ \E j \in EmbedJobs :
          /\ ejob[j].pc = "done" /\ ejob[j].status = "raised"
          /\ ejob[j].reason = "MultipleResultsFound"
          /\ ~HasVector(ejob[j].space_id, ejob[j].article_id)


(***************************************************************************)
(* Clusters and their first member.                                        *)
(***************************************************************************)
\* The clusters the worker's jobs created, by their own account.
CreatedByWorker == {w.cluster_id : w \in {x \in written : x.created}}

\* C37: a step that commits a new Cluster commits an assignment to it in the
\* same transaction, and no step of the pipeline removes an assignment; so
\* every cluster the worker created keeps a member, and a TrendMetric of
\* such a cluster never has doc_count 0.
C37_NewClusterKeepsAMember ==
    [][/\ assignments \subseteq assignments'
       /\ \A c \in clusters' \ clusters :
             \E x \in assignments' \ assignments :
                 x.cluster_id = c.id /\ x.run_id = c.run_id
       /\ \A m \in metrics' \ metrics :
             m.cluster_id \in CreatedByWorker => m.doc_count >= 1]_vars

\* calculate_trends has measured a cluster the worker created.
C37_Witness ==
    \E m \in metrics :
        /\ m.cluster_id \in CreatedByWorker
        /\ m.doc_count >= 1
        /\ \E c \in clusters : c.id = m.cluster_id


(***************************************************************************)
(* Clusters past the 24 hours of calculate_trends and metrics past the     *)
(* hour of detect_events.                                                  *)
(***************************************************************************)
\* The articles of a database in which articles 1, 2 and 3 are clustered
\* and a further article with text is stored.
AgedArticles ==
    ClusterArticles \cup
      { [id |-> 6, source_id |-> 2, url |-> "u6", simhash_64 |-> {4, 5, 6, 7},
         text_content |-> "text", created_at |-> KNN_WINDOW] }

\* The database when cluster 1, which holds articles 1, 2 and 3, was created
\* 24 hours ago or ten minutes earlier, and its only metric, an anomalous
\* one, is one hour old or ten minutes older.
AgedClusterInit ==
    /\ now = KNN_WINDOW
    /\ pjob = [j \in IngestJobs |-> IdlePJob]
    /\ delayed = << >>
    /\ ejob = [j \in EmbedJobs |-> IdleEJob]
    /\ written = {}
    /\ events = {} /\ nextEventId = 1
    /\ published = {}
    /\ djob = [j \in DetectJobs |-> IdleDJob]
    /\ sjob = [j \in SummaryJobs |-> IdleSJob]
    /\ NoStream
    /\ TrendJobsIdle /\ BrokerIdle
    /\ articles = AgedArticles /\ nextArticleId = 7
    /\ spaces = {Space1} /\ nextSpaceId = 2
    /\ \E age \in {TWENTY_FOUR_HOURS, TWENTY_FOUR_HOURS + 1} :
          clusters = {[Cluster1 EXCEPT !.created_at = KNN_WINDOW - age]}
    /\ nextClusterId = 2
    /\ runs = {[id |-> 1, space_id |-> 1, is_active |-> TRUE, params |-> {}]}
    /\ embeddings = StoredEmbeddings \cup
                      {[space_id |-> 1, article_id |-> 3, embedding |-> 3]}
    /\ assignments = {Assignment1, Assignment2,
                      [Assignment1 EXCEPT !.article_id = 3, !.similarity = 85]}
    /\ summaries = {} /\ nextSummaryId = 1
    /\ \E age \in {ONE_HOUR, ONE_HOUR + 1} :
          metrics = {Metric(KNN_WINDOW - age, 1, 1, 3, 3, 0)}

SpecAged == (PipelineInit \/ AgedClusterInit) /\ [][PipelineNext]_vars

\* The events a detector run has inserted in this step: flushed in its
\* session or committed.
EventsEmitted ==
    (events' \ events) \cup
      UNION {djob'[j].pending \ djob[j].pending : j \in DetectJobs}

\* C38: a TrendMetric row is committed only for a cluster created at most 24
\* hours before the row's instant, and a detector run inserts an Event only
\* for a cluster that has a metric at most one hour older than the run's
\* instant, whatever was attached to the cluster.
C38_AgedClustersGetNoMetricsAndNoEvents ==
    [][/\ \A m \in metrics' \ metrics :
             \E c \in clusters : /\ c.id = m.cluster_id
                                 /\ c.created_at >= m.ts - TWENTY_FOUR_HOURS
       /\ \A e \in EventsEmitted :
             \E m \in metrics : /\ m.cluster_id = e.cluster_id
                                /\ m.ts >= e.detected_at - ONE_HOUR]_vars

\* An article was attached to the aged cluster 1, and then a trend run that
\* found no cluster or a detector run that found no metric has ended.
C38_Witness ==
    /\ \E c \in clusters : c.id = 1 /\ c.created_at < KNN_WINDOW - TWENTY_FOUR_HOURS
    /\ \E w \in written : w.cluster_id = 1 /\ w.article_id = 6
    /\ \/ \E j \in TrendJobs : tjob[j].pc = "done" /\ tjob[j].status = "no_clusters"
       \/ \E j \in DetectJobs : djob[j].pc = "done" /\ djob[j].status = "no_metrics"
    /\ metrics = {Metric(KNN_WINDOW - ONE_HOUR - 1, 1, 1, 3, 3, 0)}
    /\ events = {}

(***************************************************************************)
(* Summariser jobs for clusters that have a summary.                       *)
(***************************************************************************)
\* The requests submitted in this step.
SubmittedNow == {delayed'[i] : i \in DOMAIN delayed' \ DOMAIN delayed}

\* C39: a cluster that has an active ClusterSummary has one in every later
\* state, and no step of an embed_and_cluster_article job submits a
\* summarize_cluster job for it, whatever is attached to it.
C39_NoSummaryJobOnceSummarised ==
    [][\A c \in clusters :
          ActiveSummaries(c.id) # {} =>
             /\ \E sm \in summaries' : sm.cluster_id = c.id /\ sm.is_active = TRUE
             /\ SummarizeRequest(c.id) \notin SubmittedNow]_vars

\* A summariser job stored the summary of cluster 1; then a job attached
\* article 6 to the cluster, which has four articles, and submitted nothing.
C39_Witness ==
    /\ \E k \in SummaryJobs :
          sjob[k].pc = "done" /\ sjob[k].status = "success" /\ sjob[k].cluster_id = 1
    /\ ActiveSummaries(1) # {}
    /\ \E j \in EmbedJobs :
          /\ ejob[j].pc = "done" /\ ejob[j].status = "embedded_and_clustered"
          /\ ejob[j].cluster_id = 1 /\ ejob[j].article_id = 6
    /\ [run_id |-> 1, cluster_id |-> 1, article_id |-> 6, similarity |-> 85]
          \in assignments
    /\ delayed = << >>

(***************************************************************************)
(* The SimHash value in the BIGINT column.                                 *)
(***************************************************************************)
\* C40: whatever 64-bit value the fingerprint step produced, the insert of a
\* job whose url no row has stores an Article whose simhash_64 is that
\* value, which later scans read.
C40_EverySimhashIsStored ==
    [][\A j \in IngestJobs :
          (/\ pjob[j].pc = "insert"
           /\ pjob'[j] # pjob[j]
           /\ ExistingByUrl(pjob[j].url) = {})
          => \E a \in articles' \ articles :
                /\ a.url = pjob[j].url
                /\ a.simhash_64 = pjob[j].simhash_value]_vars

=============================================================================
